---- MODULE Spec2Model ----
(***************************************************************************)
(* A state-machine model of the pure-Python NES core (src/nes/pycore):     *)
(* the system runner NES.step, the interrupt listener, the CPU memory map  *)
(* NESMappedRAM, the PPU register file and the PPU tick loop run_cycles.   *)
(*                                                                         *)
(* Byte arrays that the code creates zero-filled (RAM, OAM, nametables,    *)
(* palette RAM) are kept as sparse maps: a function from the indices that  *)
(* hold a non-zero byte to that byte.  Get and Put keep the map canonical. *)
(***************************************************************************)
EXTENDS Integers, Naturals, Sequences, FiniteSets, TLC

VARIABLES cpu, ppu, memory, interrupt_listener, cart, rom, halted, last, ops

vars == <<cpu, ppu, memory, interrupt_listener, cart, rom, halted, last, ops>>

\* Python's None where an object is expected: rom is the ROM object a
\* cartridge is being made from, None when there is none
None == [class |-> "None"]

-----------------------------------------------------------------------------
(* Bounds of the model *)

\* CPU cycles that a run of the timing specification may last past its start
Window == 18
\* number of register accesses in a run of the register specification
MaxRegOps == 5
\* number of CPU bus operations in a run of the memory specification
MaxMemOps == 3

\* register accesses in a run of the palette specification
MaxPalOps == 4
\* accesses in a run of the controller specification
MaxPadOps == 12
\* PPU ticks in a run of the rendering specification: lines 0 and 1
RenderTicks == 682
\* PPUSTATUS reads in a run of the rendering specification
MaxStatusReads == 1

\* ticks, and register accesses, of a run about the PPUSTATUS flags
FlagTicks == 5

MaxFlagOps == 2

\* frames of a run about the frame length, the cycles it takes one by one at
\* the head of a frame, and its PPUMASK writes
MaxFrames == 3

HeadCycles == 2

MaxMaskOps == 2

\* direct CPU calls in a run of the stack specification
MaxStackOps == 3

\* calls of a run in which a KIL opcode is executed
MaxKilOps == 4

\* instructions in a run of the indexed addressing specification
MaxIdxOps == 2

\* branches in a run of the branch specification
MaxBranchOps == 2

\* PPU cycles in one call of run_cycles in the batching specification
MaxBatch == 6

\* calls of run_cycles in a run of the batching specification
MaxBatchOps == 3

\* accesses in a run of the nametable specification
MaxVramOps == 2

\* instructions run at the edges of the address space (SpecPc)
MaxPcOps == 2

\* single PPU cycles run from each start of the vblank specification
VblTicks == 4

\* PPUSTATUS reads in a run of the vblank specification
MaxVblReads == 2

\* frames in a run of the vblank specification: an even and an odd one
MaxVblFrames == 2

-----------------------------------------------------------------------------
(* Program constants *)

RAM_SIZE == 2048
NUM_PPU_REGISTERS == 8
RAM_END == 2048
PPU_END == 16384
APU_END == 16408
APU_UNUSED_END == 16416
OAM_DMA == 16404
CONTROLLER1 == 16406
CONTROLLER2 == 16407
NUM_BUTTONS == 8
OAM_SIZE_BYTES == 256

NAMETABLE_START == 8192
NAMETABLE_LENGTH_BYTES == 1024
NAMETABLES_SIZE_BYTES == 2048
PALETTE_START == 16128
PALETTE_SIZE_BYTES == 32
CHR_MEM_SIZE == 8192
MIRROR_HORIZONTAL == <<0, 0, 1, 1>>

PPU_CTRL == 0
PPU_MASK == 1
PPU_STATUS == 2
OAM_ADDR == 3
OAM_DATA == 4
PPU_SCROLL == 5
PPU_ADDR == 6
PPU_DATA == 7

VBLANK_MASK == 128
SPRITE0_HIT_MASK == 64
SPRITE_OVERFLOW_MASK == 32
VRAM_INCREMENT_MASK == 4
PIXELS_PER_LINE == 341
SPRITE_SIZE_MASK == 32
BKG_PATTERN_TABLE_MASK == 16
SPRITE_PATTERN_TABLE_MASK == 8
RENDERING_ENABLED_MASK == 24
RENDER_SPRITES_MASK == 16
RENDER_BACKGROUND_MASK == 8
RENDER_LEFT8_BKG_BIT == 1
RENDER_LEFT8_SPRITES_BIT == 2
PPU_SCROLL_X == 0
PPU_SCROLL_Y == 1
SCREEN_TILE_ROWS == 30
SCREEN_TILE_COLS == 32
PATTERN_SIZE_BYTES == 16
ATTRIBUTE_TABLE_OFFSET == 960
PPUCTRL_WARMUP_CYCLES == 29658
STATUS_IO_LATCH_MASK == 69905

DEFAULT_NES_PALETTE ==
    <<
      <<82, 82, 82>>, <<1, 26, 81>>, <<15, 15, 101>>, <<35, 6, 99>>,
      <<54, 3, 75>>, <<64, 4, 38>>, <<63, 9, 4>>, <<50, 19, 0>>,
      <<31, 32, 0>>, <<11, 42, 0>>, <<0, 47, 0>>, <<0, 46, 10>>,
      <<0, 38, 45>>, <<0, 0, 0>>, <<0, 0, 0>>, <<0, 0, 0>>,
      <<160, 160, 160>>, <<30, 74, 157>>, <<56, 55, 188>>, <<88, 40, 184>>,
      <<117, 33, 148>>, <<132, 35, 92>>, <<130, 46, 36>>, <<111, 63, 0>>,
      <<81, 82, 0>>, <<49, 99, 0>>, <<26, 107, 5>>, <<14, 105, 46>>,
      <<16, 92, 104>>, <<0, 0, 0>>, <<0, 0, 0>>, <<0, 0, 0>>,
      <<254, 255, 255>>, <<105, 158, 252>>, <<137, 135, 255>>, <<174, 118, 255>>,
      <<206, 109, 241>>, <<224, 112, 178>>, <<222, 124, 112>>, <<200, 145, 62>>,
      <<166, 167, 37>>, <<129, 186, 40>>, <<99, 196, 70>>, <<84, 193, 125>>,
      <<86, 179, 192>>, <<60, 60, 60>>, <<0, 0, 0>>, <<0, 0, 0>>,
      <<254, 255, 255>>, <<190, 214, 253>>, <<204, 204, 255>>, <<221, 196, 255>>,
      <<234, 192, 249>>, <<242, 193, 223>>, <<241, 199, 194>>, <<232, 208, 170>>,
      <<217, 218, 157>>, <<201, 226, 158>>, <<188, 230, 174>>, <<180, 229, 199>>,
      <<181, 223, 228>>, <<169, 169, 169>>, <<0, 0, 0>>, <<0, 0, 0>>
    >>

STACK_PAGE == 256
NMI_VECTOR_ADDR == 65530
IRQ_BRK_VECTOR_ADDR == 65534
RESET_VECTOR_ADDR == 65532
INTERRUPT_REQUEST_CYCLES == 7
OAM_DMA_CPU_CYCLES == 513
PPU_CYCLES_PER_CPU_CYCLE == 3
CART_RAM_SIZE == 8192
PRG_ROM_START == 32768
PRG_ROM_SIZE == 32768

SR_N_MASK == 128
SR_V_MASK == 64
SR_X_MASK == 32
SR_B_MASK == 16
SR_D_MASK == 8
SR_I_MASK == 4
SR_Z_MASK == 2
SR_C_MASK == 1

-----------------------------------------------------------------------------
(* Integer helpers: Python's & on non-negative integers *)

RECURSIVE BitAnd(_, _)
BitAnd(a, b) ==
    IF a = 0 \/ b = 0 THEN 0
    ELSE (a % 2) * (b % 2) + 2 * BitAnd(a \div 2, b \div 2)

B2N(b) == IF b THEN 1 ELSE 0

(* Zero-filled byte arrays as canonical sparse maps *)

EmptyBytes == [i \in {} |-> 0]

Get(m, i) == IF i \in DOMAIN m THEN m[i] ELSE 0

Put(m, i, v) ==
    IF v = 0 THEN [j \in (DOMAIN m) \ {i} |-> m[j]]
    ELSE [j \in (DOMAIN m) \cup {i} |-> IF j = i THEN v ELSE m[j]]

\* the sparse map of a full array f, given as a function on 0..n-1
Sparse(f) == [j \in {k \in DOMAIN f : f[k] # 0} |-> f[j]]

-----------------------------------------------------------------------------
(* The machine: w = [cpu, ppu, memory, interrupt_listener, cart, halted,   *)
(* g].  halted is TRUE once a Python exception has left a handler; g       *)
(* counts, for the operation in progress, the calls of _trigger_nmi made   *)
(* by a tick (tick_nmi) and by a register write (write_nmi) and the ticks  *)
(* at (241, 1) (vbl_ticks).                                                *)

(* InterruptListener *)

raise_nmi(w) == [w EXCEPT !.interrupt_listener.nmi = TRUE]

raise_oam_dma_pause(w) == [w EXCEPT !.interrupt_listener.oam_dma_pause = TRUE]

any_active(il) == il.nmi \/ il.irq \/ il.oam_dma_pause

(* NESVRAM *)

\* every palette address decoded to its own cell
decode_address_unfolded(mirror_pattern, address) ==
    IF address < NAMETABLE_START
    THEN <<"chr", address % CHR_MEM_SIZE>>
    ELSE IF address < PALETTE_START
    THEN <<"nametables", (address - NAMETABLE_START) % NAMETABLES_SIZE_BYTES>>
    ELSE <<"palette_ram", address % PALETTE_SIZE_BYTES>>

\* decode_address: <<memory, index>>; "error" where the code indexes out of
\* range.  mirror_pattern is the nametable_mirror_pattern that NESVRAM copies
\* from the cartridge when it is built.
decode_address(mirror_pattern, address) ==
    IF address < NAMETABLE_START
    THEN <<"chr", address % CHR_MEM_SIZE>>
    ELSE IF address < PALETTE_START
    THEN LET page   == (address - NAMETABLE_START) \div NAMETABLE_LENGTH_BYTES
             offset == (address - NAMETABLE_START) % NAMETABLE_LENGTH_BYTES
         IN  IF page + 1 > Len(mirror_pattern)
             THEN <<"error", 0>>
             ELSE LET ix == mirror_pattern[page + 1] * NAMETABLE_LENGTH_BYTES + offset
                  IN  IF ix < NAMETABLES_SIZE_BYTES THEN <<"nametables", ix>>
                      ELSE <<"error", 0>>
    ELSE LET a == IF address \in {16144, 16148, 16152, 16156}
                  THEN address - 16 ELSE address
         IN  <<"palette_ram", a % PALETTE_SIZE_BYTES>>

vram_ok(w, address) ==
    decode_address(w.cart.nametable_mirror_pattern, address)[1] # "error"

vram_read(w, address) ==
    LET d == decode_address(w.cart.nametable_mirror_pattern, address)
    IN  CASE d[1] = "chr"         -> Get(w.cart.chr_mem, d[2])
          [] d[1] = "nametables"  -> Get(w.ppu.nametables, d[2])
          [] d[1] = "palette_ram" -> Get(w.ppu.palette_ram, d[2])
          [] OTHER                -> 0

vram_write(w, address, value) ==
    LET d == decode_address(w.cart.nametable_mirror_pattern, address)
    IN  CASE d[1] = "chr" ->
               [w EXCEPT !.cart.chr_mem = Put(@, d[2], value)]
          [] d[1] = "nametables" ->
               [w EXCEPT !.ppu.nametables = Put(@, d[2], value)]
          [] d[1] = "palette_ram" ->
               [w EXCEPT !.ppu.palette_ram = Put(@, d[2], value)]
          [] OTHER -> [w EXCEPT !.halted = TRUE]

(* NESPPU registers *)

ppu_status(p) ==
    VBLANK_MASK * B2N(p.in_vblank)
    + SPRITE0_HIT_MASK * B2N(p.sprite_zero_hit)
    + SPRITE_OVERFLOW_MASK * B2N(p.sprite_overflow)

_increment_vram_address(w) ==
    [w EXCEPT !.ppu.ppu_addr =
        @ + (IF BitAnd(w.ppu.ppu_ctrl, VRAM_INCREMENT_MASK) = 0 THEN 1 ELSE 32)]

\* a PPUSTATUS read that also clears the NMI latch
read_status_clear_nmi(w) ==
    LET v == ppu_status(w.ppu) + BitAnd(STATUS_IO_LATCH_MASK, w.ppu.io_latch)
    IN  [w |-> [w EXCEPT !.ppu.ppu_byte_latch = 0,
                         !.ppu.in_vblank = FALSE,
                         !.ppu.io_latch = v,
                         !.interrupt_listener.nmi = FALSE],
         v |-> v]

\* read_register, PPU_STATUS branch
read_status(w) ==
    LET v == ppu_status(w.ppu) + BitAnd(STATUS_IO_LATCH_MASK, w.ppu.io_latch)
    IN  [w |-> [w EXCEPT !.ppu.ppu_byte_latch = 0,
                         !.ppu.in_vblank = FALSE,
                         !.ppu.io_latch = v],
         v |-> v]

\* read_register: [w |-> machine after the read, v |-> byte returned]
read_register(w, register) ==
    CASE register = PPU_STATUS -> read_status(w)
      [] register = OAM_DATA ->
           LET v == Get(w.ppu.oam, w.ppu.oam_addr)
           IN  [w |-> [w EXCEPT !.ppu.io_latch = v], v |-> v]
      [] register = PPU_DATA ->
           IF w.ppu.ppu_addr < PALETTE_START
           THEN IF ~vram_ok(w, w.ppu.ppu_addr)
                THEN [w |-> [w EXCEPT !.halted = TRUE], v |-> 0]
                ELSE LET buf == vram_read(w, w.ppu.ppu_addr)
                         w1  == [w EXCEPT !.ppu.ppu_data_buffer = buf]
                         w2  == _increment_vram_address(w1)
                     IN  [w |-> [w2 EXCEPT !.ppu.io_latch = buf],
                          v |-> w.ppu.ppu_data_buffer]
           ELSE LET v   == vram_read(w, w.ppu.ppu_addr)
                    buf == vram_read(w, w.ppu.ppu_addr - 4096)
                    w1  == [w EXCEPT !.ppu.ppu_data_buffer = buf]
                    w2  == _increment_vram_address(w1)
                IN  IF ~vram_ok(w, w.ppu.ppu_addr - 4096)
                    THEN [w |-> [w EXCEPT !.halted = TRUE], v |-> 0]
                    ELSE [w |-> [w2 EXCEPT !.ppu.io_latch = buf], v |-> v]
      [] OTHER -> [w |-> w, v |-> w.ppu.io_latch]

\* a byte latch that a write leaves alone
keep_byte_latch(latch) == latch

\* the shared byte latch after a PPUSCROLL or PPUADDR write
flip_byte_latch(latch) == 1 - latch

\* an NMI for every write in the vertical blank that has bit 7 set
trigger_nmi_level(p, value) ==
    /\ p.in_vblank
    /\ BitAnd(value, VBLANK_MASK) > 0

\* write_register(PPU_CTRL), trigger_nmi: in the vertical blank, the vblank
\* NMI flag goes from low to high
trigger_nmi_flag(p, value) ==
    /\ p.in_vblank
    /\ BitAnd(value, VBLANK_MASK) > 0
    /\ BitAnd(p.ppu_ctrl, VBLANK_MASK) = 0

write_register(w, register, val) ==
    LET value == val % 256
        w0    == [w EXCEPT !.ppu.io_latch = value]
        p     == w0.ppu
    IN  CASE register = PPU_CTRL ->
               IF p.cycles_since_reset < PPUCTRL_WARMUP_CYCLES THEN w0
               ELSE LET w1 == [w0 EXCEPT !.ppu.ppu_ctrl = value]
                    IN  IF trigger_nmi_flag(p, value)
                        THEN raise_nmi([w1 EXCEPT !.g.write_nmi = @ + 1])
                        ELSE w1
          [] register = PPU_MASK -> [w0 EXCEPT !.ppu.ppu_mask = value]
          [] register = PPU_STATUS -> w0
          [] register = OAM_ADDR -> [w0 EXCEPT !.ppu.oam_addr = value]
          [] register = OAM_DATA ->
               [w0 EXCEPT !.ppu.oam = Put(@, p.oam_addr, value),
                          !.ppu.oam_addr = (p.oam_addr + 1) % 256]
          [] register = PPU_SCROLL ->
               [w0 EXCEPT !.ppu.ppu_scroll[p.ppu_byte_latch + 1] = value,
                          !.ppu.ppu_byte_latch = flip_byte_latch(p.ppu_byte_latch)]
          [] register = PPU_ADDR ->
               IF p.ppu_byte_latch = 0
               THEN [w0 EXCEPT
                       !.ppu.ppu_addr = BitAnd(p.ppu_addr, 255) + value * 256,
                       !.ppu.ppu_ctrl = BitAnd(p.ppu_ctrl, 252)
                                        + (BitAnd(value, 12) \div 4),
                       !.ppu.ppu_scroll[2] = BitAnd(p.ppu_scroll[2], 60)
                                             + BitAnd(value, 3) * 64
                                             + (BitAnd(value, 48) \div 16),
                       !.ppu.ppu_byte_latch = flip_byte_latch(p.ppu_byte_latch)]
               ELSE [w0 EXCEPT
                       !.ppu.ppu_addr = BitAnd(p.ppu_addr, 65280) + value,
                       !.ppu.ppu_scroll[1] = BitAnd(p.ppu_scroll[1], 7)
                                             + BitAnd(value, 31) * 8,
                       !.ppu.ppu_scroll[2] = BitAnd(p.ppu_scroll[2], 199)
                                             + (BitAnd(value, 224) \div 4),
                       !.ppu.ppu_byte_latch = flip_byte_latch(p.ppu_byte_latch)]
          [] register = PPU_DATA ->
               IF ~vram_ok(w0, p.ppu_addr) THEN [w0 EXCEPT !.halted = TRUE]
               ELSE _increment_vram_address(vram_write(w0, p.ppu_addr, value))
          [] OTHER -> w0

(* NESPPU rendering.  A colour is <<r, g, b>>; NoColor is Python's None.    *)
(* The palette cache of decode_palette is left out: palette RAM changes     *)
(* only in the PPUDATA branch of write_register, which invalidates the      *)
(* whole cache, so a cached palette is always the palette decode_palette    *)
(* would compute.  Of the screen the model keeps the calls of write_at an   *)
(* operation makes: their number and the last one (g.screen_writes,         *)
(* g.written).                                                              *)

NoColor == <<>>

rgb_palette == DEFAULT_NES_PALETTE

\* _get_non_palette_color: the first grey from (1, 1, 1) up not in the palette
transparent_color ==
    LET InPalette(k) ==
            \E i \in 1 .. Len(rgb_palette) : rgb_palette[i] = <<k, k, k>>
        grey == CHOOSE k \in 1 .. 256 :
                    ~InPalette(k) /\ \A j \in 1 .. k - 1 : InPalette(j)
    IN  <<grey, grey, grey>>

bit_high(value, bit) == BitAnd(value, 2 ^ bit) > 0

bit_low(value, bit) == BitAnd(value, 2 ^ bit) = 0

set_low_byte(target, lo_byte) == BitAnd(target, 65280) + lo_byte

\* decode_palette: the four colours of a background or sprite palette
decode_palette(w, palette_id, is_sprite) ==
    [i \in 1 .. 4 |->
        rgb_palette[BitAnd(vram_read(w, PALETTE_START + 16 * B2N(is_sprite)
                                        + 4 * palette_id + i - 1), 63) + 1]]

\* screen.write_at
write_at(w, x, y, color) ==
    [w EXCEPT !.g.screen_writes = @ + 1, !.g.written = <<x, y, color>>]

\* fill_bkg_latches: the tile (row, col) after the scroll and the base
\* nametable of PPUCTRL, as a row and a column of the two-by-two nametables
total_row(p, row) ==
    (row + B2N(bit_high(p.ppu_ctrl, 1)) * SCREEN_TILE_ROWS
     + (BitAnd(p.ppu_scroll[PPU_SCROLL_Y + 1], 248) \div 8))
    % (2 * SCREEN_TILE_ROWS)

total_col(p, col) ==
    (col + B2N(bit_high(p.ppu_ctrl, 0)) * SCREEN_TILE_COLS
     + (BitAnd(p.ppu_scroll[PPU_SCROLL_X + 1], 248) \div 8))
    % (2 * SCREEN_TILE_COLS)

tile_row(p, row) == total_row(p, row) % SCREEN_TILE_ROWS

tile_col(p, col) == total_col(p, col) % SCREEN_TILE_COLS

ntbl_base(p, row, col) ==
    NAMETABLE_START
    + ((total_row(p, row) \div SCREEN_TILE_ROWS) * 2
       + (total_col(p, col) \div SCREEN_TILE_COLS)) * NAMETABLE_LENGTH_BYTES

\* fill_bkg_latches: the address of the tile's pattern
bkg_tile_base(w, row, col) ==
    B2N(BitAnd(w.ppu.ppu_ctrl, BKG_PATTERN_TABLE_MASK) > 0) * 4096
    + vram_read(w, ntbl_base(w.ppu, row, col)
                   + tile_row(w.ppu, row) * SCREEN_TILE_COLS
                   + tile_col(w.ppu, col)) * PATTERN_SIZE_BYTES

\* fill_bkg_latches: the palette the attribute table gives the tile
bkg_palette_id(w, row, col) ==
    LET attribute_byte ==
            vram_read(w, ntbl_base(w.ppu, row, col) + ATTRIBUTE_TABLE_OFFSET
                         + (tile_row(w.ppu, row) \div 4) * 8
                         + (tile_col(w.ppu, col) \div 4))
        shift == 4 * ((tile_row(w.ppu, row) \div 2) % 2)
                 + 2 * ((tile_col(w.ppu, col) \div 2) % 2)
    IN  BitAnd(attribute_byte, 3 * 2 ^ shift) \div 2 ^ shift

fill_bkg_latches(w, line, col) ==
    [w EXCEPT
       !.ppu.palette =
           <<@[2], decode_palette(w, bkg_palette_id(w, line \div 8, col), FALSE)>>,
       !.ppu.pattern_lo =
           set_low_byte(@, vram_read(w, bkg_tile_base(w, line \div 8, col)
                                        + line - 8 * (line \div 8))),
       !.ppu.pattern_hi =
           set_low_byte(@, vram_read(w, bkg_tile_base(w, line \div 8, col)
                                        + line - 8 * (line \div 8) + 8))]

shift_bkg_latches(w) ==
    [w EXCEPT !.ppu.pattern_hi = @ * 256, !.ppu.pattern_lo = @ * 256]

\* _get_bkg_pixel: the palette latches hold four colours whenever the
\* pattern latches they go with hold a set bit
_get_bkg_pixel(w) ==
    LET p  == w.ppu
        px == ((p.pixel - 1) % 8) + BitAnd(p.ppu_scroll[PPU_SCROLL_X + 1], 7)
        v  == B2N(bit_high(p.pattern_lo, 15 - px))
              + B2N(bit_high(p.pattern_hi, 15 - px)) * 2
    IN  IF \/ BitAnd(p.ppu_mask, RENDER_BACKGROUND_MASK) = 0
           \/ (p.pixel - 1 < 8 /\ bit_low(p.ppu_mask, RENDER_LEFT8_BKG_BIT))
        THEN transparent_color
        ELSE IF v > 0 THEN p.palette[(px \div 8) + 1][v + 1]
        ELSE transparent_color

sprite_height(p) == IF BitAnd(p.ppu_ctrl, SPRITE_SIZE_MASK) > 0 THEN 16 ELSE 8

\* _prefetch_active_sprites: the OAM address of the n-th sprite scanned
scan_addr(p, n) == (p.oam_addr_held + n * 4) % OAM_SIZE_BYTES

\* _prefetch_active_sprites: the sprite at addr covers the line
in_range(p, addr, line) ==
    Get(p.oam, addr) <= line /\ line < Get(p.oam, addr) + sprite_height(p)

\* _prefetch_active_sprites: the addresses the loop appends before it stops
matching_sprites(p, line) ==
    LET found == SelectSeq([n \in 1 .. 64 |-> scan_addr(p, n - 1)],
                           LAMBDA addr : in_range(p, addr, line))
    IN  IF Len(found) > 9 THEN SubSeq(found, 1, 9) ELSE found

\* _fill_sprite_latches: the row of the pattern table for a sprite
sprite_tile_line(p, address, sprite_line) ==
    LET attribs == Get(p.oam, BitAnd(address + 2, 255))
        tile    == Get(p.oam, BitAnd(address + 1, 255))
        flip_v  == bit_high(attribs, 7)
    IN  IF sprite_height(p) = 8
        THEN tile * PATTERN_SIZE_BYTES
             + (IF flip_v THEN 7 - sprite_line ELSE sprite_line)
        ELSE LET ln == IF flip_v THEN 15 - sprite_line ELSE sprite_line
             IN  IF ln >= 8
                 THEN (BitAnd(tile, 254) + 1) * PATTERN_SIZE_BYTES + ln - 8
                 ELSE BitAnd(tile, 254) * PATTERN_SIZE_BYTES + ln

\* _fill_sprite_latches: the eight colours of a sprite on its line
sprite_row(w, address, sprite_line) ==
    LET p       == w.ppu
        attribs == Get(p.oam, BitAnd(address + 2, 255))
        palette == decode_palette(w, BitAnd(attribs, 3), TRUE)
        base    == B2N(BitAnd(p.ppu_ctrl, SPRITE_PATTERN_TABLE_MASK) > 0) * 4096
                   + sprite_tile_line(p, address, sprite_line)
        lo      == vram_read(w, base)
        hi      == vram_read(w, base + 8)
    IN  [j \in 1 .. 8 |->
            LET x == IF bit_high(attribs, 6) THEN j - 1 ELSE 8 - j
                c == B2N(bit_high(hi, x)) * 2 + B2N(bit_high(lo, x))
            IN  IF c > 0 THEN palette[c + 1] ELSE NoColor]

_fill_sprite_latches(w, line) ==
    LET p == w.ppu
    IN  [w EXCEPT
           !.ppu.sprite_pattern =
               [i \in 1 .. 8 |->
                   IF i <= Len(p.active_sprites)
                   THEN sprite_row(w, p.active_sprites[i],
                                   line - Get(p.oam, p.active_sprites[i]))
                   ELSE @[i]],
           !.ppu.sprite_bkg_priority =
               [i \in 1 .. 8 |->
                   IF i <= Len(p.active_sprites)
                   THEN bit_high(Get(p.oam, BitAnd(p.active_sprites[i] + 2, 255)), 5)
                   ELSE @[i]]]

\* a list that keeps the ninth sprite
keep_found(found) == found

\* the sprites kept of those found
first_eight(found) == IF Len(found) > 8 THEN SubSeq(found, 1, 8) ELSE found

_prefetch_active_sprites(w, line) ==
    _fill_sprite_latches(
        [w EXCEPT !.ppu.sprite_overflow =
                      @ \/ Len(matching_sprites(w.ppu, line)) > 8,
                  !.ppu.active_sprites =
                      first_eight(matching_sprites(w.ppu, line))],
        line)

\* _overlay_sprites: the active sprites with an opaque pixel at x
opaque_sprites(p, x) ==
    {i \in 1 .. Len(p.active_sprites) :
        /\ Get(p.oam, p.active_sprites[i] + 3) <= x
        /\ x < Get(p.oam, p.active_sprites[i] + 3) + 8
        /\ p.sprite_pattern[i][x - Get(p.oam, p.active_sprites[i] + 3) + 1]
           # NoColor}

\* _overlay_sprites: the loop runs from the last active sprite down, so the
\* sprite it ends with is the first of those with an opaque pixel
top_sprite(p, x) ==
    CHOOSE i \in opaque_sprites(p, x) : \A j \in opaque_sprites(p, x) : i <= j

\* _overlay_sprites: sprite or background, before the universal background
\* colour stands in for a transparent pixel
sprite_over_bkg(p, x, bkg_pixel) ==
    IF /\ opaque_sprites(p, x) # {}
       /\ (~p.sprite_bkg_priority[top_sprite(p, x)]
           \/ bkg_pixel = transparent_color)
    THEN p.sprite_pattern[top_sprite(p, x)]
             [x - Get(p.oam, p.active_sprites[top_sprite(p, x)] + 3) + 1]
    ELSE bkg_pixel

\* _overlay_sprites: [w |-> machine after the call, c |-> colour returned];
\* oam[sprite_addr + 3] raises for an active sprite at an address above 252
_overlay_sprites(w, bkg_pixel) ==
    LET p == w.ppu
        x == p.pixel - 1
    IN  IF \/ BitAnd(p.ppu_mask, RENDER_SPRITES_MASK) = 0
           \/ (x < 8 /\ bit_low(p.ppu_mask, RENDER_LEFT8_SPRITES_BIT))
        THEN [w |-> w, c |-> bkg_pixel]
        ELSE IF \E i \in 1 .. Len(p.active_sprites) :
                    p.active_sprites[i] + 3 >= OAM_SIZE_BYTES
        THEN [w |-> [w EXCEPT !.halted = TRUE], c |-> NoColor]
        ELSE [w |-> [w EXCEPT !.ppu.sprite_zero_hit =
                        \/ @
                        \/ /\ \E i \in opaque_sprites(p, x) :
                                 p.active_sprites[i] = 0
                           /\ bkg_pixel # transparent_color],
              c |-> IF sprite_over_bkg(p, x, bkg_pixel) # transparent_color
                    THEN sprite_over_bkg(p, x, bkg_pixel)
                    ELSE decode_palette(w, 0, FALSE)[1]]

\* run_cycles, pixels 1-256: write the pixel unless it is transparent
put_pixel(r) ==
    IF r.w.halted THEN r.w
    ELSE IF r.c # transparent_color
    THEN write_at(r.w, r.w.ppu.pixel - 1, r.w.ppu.line, r.c)
    ELSE r.w

render_pixel(w) == put_pixel(_overlay_sprites(w, _get_bkg_pixel(w)))

\* run_cycles: the latches move on by a tile
next_tile(w, line, col) == fill_bkg_latches(shift_bkg_latches(w), line, col)

\* run_cycles, line 459: a visible scanline with rendering enabled
rendering_line(p) ==
    p.line <= 239 /\ BitAnd(p.ppu_mask, RENDERING_ENABLED_MASK) > 0

\* the visible-scanline part of one loop iteration (lines 459-492)
TickRender(w) ==
    LET p == w.ppu
    IN  IF ~rendering_line(p)
        THEN w
        ELSE IF 0 < p.pixel /\ p.pixel <= 256
        THEN IF (p.pixel - 1) % 8 = 0 /\ p.pixel > 1
             THEN render_pixel(next_tile(w, p.line, p.col + 1))
             ELSE render_pixel(w)
        ELSE IF p.pixel = 257 THEN _prefetch_active_sprites(w, p.line)
        ELSE IF 321 <= p.pixel /\ p.pixel <= 336
        THEN IF p.pixel % 8 = 1
             THEN next_tile(w, p.line + 1, (p.pixel - 321) \div 8)
             ELSE w
        ELSE w

(* NESPPU.run_cycles *)

_new_frame(w) ==
    [w EXCEPT !.ppu.frames_since_reset = @ + 1,
              !.ppu.cycles_since_frame = 0,
              !.ppu.pixel = 0,
              !.ppu.line = 0,
              !.ppu.row = 0,
              !.ppu.col = 0]

\* an NMI at the start of every vertical blank
nmi_on_vblank_always(ppu_ctrl) == TRUE

\* run_cycles at (241, 1): PPUCTRL asks for an NMI at the start of vblank
nmi_on_vblank(ppu_ctrl) == BitAnd(ppu_ctrl, VBLANK_MASK) > 0

\* a pre-render line that clears the vblank flag alone
clear_vblank_only(w) == [w EXCEPT !.ppu.in_vblank = FALSE]

\* run_cycles at (261, 1): the three flags of PPUSTATUS go down
clear_status_flags(w) ==
    [w EXCEPT !.ppu.in_vblank = FALSE,
              !.ppu.sprite_zero_hit = FALSE,
              !.ppu.sprite_overflow = FALSE]

\* a vblank flag that goes up one dot early, at dot 0 of line 241
vblank_start_early(p) == p.line = 241 /\ p.pixel = 0

\* run_cycles: the position whose tick sets the vblank flag
vblank_start(p) == p.line = 241 /\ p.pixel = 1

\* the part of one loop iteration that depends on the position (lines 494-532)
TickPhase(w) ==
    LET p == w.ppu
    IN  IF p.line = 0 /\ p.pixel = 65
        THEN [w EXCEPT !.ppu.oam_addr_held = p.oam_addr]
        ELSE IF p.line = 240 /\ p.pixel = 0 THEN w
        ELSE IF vblank_start(p)
        THEN LET w1 == [w EXCEPT !.ppu.in_vblank = TRUE,
                                 !.g.vbl_ticks = @ + 1]
             IN  IF nmi_on_vblank(p.ppu_ctrl)
                 THEN raise_nmi([w1 EXCEPT !.g.tick_nmi = @ + 1])
                 ELSE w1
        ELSE IF 241 <= p.line /\ p.line <= 260 THEN w
        ELSE IF p.line = 261
        THEN IF p.pixel = 1
             THEN clear_status_flags(w)
             ELSE IF p.pixel = 257 THEN [w EXCEPT !.ppu.active_sprites = <<>>]
             ELSE IF 321 <= p.pixel /\ p.pixel <= 336
             THEN IF p.pixel % 8 = 1
                  THEN next_tile(w, 0, (p.pixel - 321) \div 8)
                  ELSE w
             ELSE IF p.pixel = PIXELS_PER_LINE - 1 - (p.frames_since_reset % 2)
             THEN [w EXCEPT !.ppu.frame_ended = TRUE]
             ELSE w
        ELSE w

\* the position after the tick: pixel, col, line and row (lines 536-544)
next_position(p) ==
    IF p.pixel + 1 >= PIXELS_PER_LINE
    THEN [p EXCEPT !.pixel = 0, !.col = 0, !.line = @ + 1,
                   !.row = IF p.line + 1 > 0 /\ (p.line + 1) % 8 = 0
                           THEN @ + 1 ELSE @]
    ELSE [p EXCEPT !.pixel = @ + 1,
                   !.col = IF p.pixel + 1 > 1 /\ (p.pixel + 1) % 8 = 1
                           THEN @ + 1 ELSE @]

\* the counter updates that end one loop iteration (lines 534-547)
TickAdvance(w) ==
    LET w2 == [w EXCEPT !.ppu = next_position([@ EXCEPT
                                  !.cycles_since_reset = @ + 1,
                                  !.cycles_since_frame = @ + 1])]
    IN  IF w2.ppu.frame_ended THEN _new_frame(w2) ELSE w2

\* the rest of the loop iteration, unless the rendering raised
TickRest(r) == IF r.halted THEN r ELSE TickAdvance(TickPhase(r))

\* one loop iteration; a call that raises leaves the loop
Tick(w) ==
    IF rendering_line(w.ppu)
    THEN TickRest(TickRender(w))
    ELSE TickRest(w)

\* num_cycles iterations of the loop body (the first half of them, then the
\* rest; the test on h.halted only fixes the order of evaluation)
RECURSIVE Ticks(_, _)
Ticks(w, n) ==
    IF n = 0 THEN w
    ELSE IF n = 1 THEN Tick(w)
    ELSE LET h == Ticks(w, n \div 2)
         IN  IF h.halted THEN h ELSE Ticks(h, n - (n \div 2))

\* frame_ended is the local of run_cycles, kept in the record as its result
run_cycles(w, num_cycles) ==
    Ticks([w EXCEPT !.ppu.frame_ended = FALSE], num_cycles)

-----------------------------------------------------------------------------
(* NESCart0 *)

cart_read(w, address) ==
    IF address < PRG_ROM_START
    THEN Get(w.cart.ram, address % CART_RAM_SIZE)
    ELSE Get(w.cart.prg_rom, (address - w.cart.prg_start_addr) % w.cart.prg_rom_len)

\* a write that leaves the PRG-ROM alone
rom_write_discarded(w, address, value) ==
    IF address < PRG_ROM_START
    THEN [w EXCEPT !.cart.ram = Put(@, address % CART_RAM_SIZE, value)]
    ELSE w

cart_write(w, address, value) ==
    IF address < PRG_ROM_START
    THEN [w EXCEPT !.cart.ram = Put(@, address % CART_RAM_SIZE, value)]
    ELSE [w EXCEPT !.cart.prg_rom =
            Put(@, (address - w.cart.prg_start_addr) % w.cart.prg_rom_len, value)]

(* ControllerBase: is_pressed is the tuple of the eight buttons in the      *)
(* order A, B, select, start, up, down, left, right (index 1 is button A);  *)
(* strobe is the byte last written, 0 for the initial False.                *)

NewController(active) ==
    [is_pressed |-> <<0, 0, 0, 0, 0, 0, 0, 0>>, current_bit |-> 0,
     strobe |-> 0, active |-> active]

set_strobe(c, value) ==
    IF value # 0 THEN [c EXCEPT !.strobe = value, !.current_bit = 0]
    ELSE [c EXCEPT !.strobe = value]

\* read_bit: [c |-> controller after the read, v |-> bit returned]
read_bit(c) ==
    IF ~c.active THEN [c |-> c, v |-> 0]
    ELSE [c |-> [c EXCEPT !.current_bit =
                    IF @ + 1 < NUM_BUTTONS THEN @ + 1 ELSE NUM_BUTTONS],
          v |-> IF c.current_bit < NUM_BUTTONS
                THEN c.is_pressed[c.current_bit + 1] ELSE 1]

-----------------------------------------------------------------------------
(* NESMappedRAM *)

\* the byte a controller port returns for the bit v
port_byte(v) == BitAnd(v, 31) + BitAnd(64, 224)

\* the region an address is routed to
region(address) ==
    IF address < RAM_END THEN "ram"
    ELSE IF address < PPU_END THEN "ppu"
    ELSE IF address < APU_END THEN "apu/oam"
    ELSE IF address < APU_UNUSED_END THEN "apu-unused"
    ELSE "cart"

\* read: [w |-> machine after the read, v |-> byte returned]
mem_read(w, address) ==
    CASE region(address) = "ram" ->
           [w |-> w, v |-> Get(w.memory.ram, address % RAM_SIZE)]
      [] region(address) = "ppu" ->
           read_register(w, address % NUM_PPU_REGISTERS)
      [] region(address) = "cart" ->
           [w |-> w, v |-> cart_read(w, address)]
      [] region(address) = "apu/oam" /\ address = CONTROLLER1 ->
           [w |-> [w EXCEPT !.memory.controller1 = read_bit(@).c],
            v |-> port_byte(read_bit(w.memory.controller1).v)]
      [] region(address) = "apu/oam" /\ address = CONTROLLER2 ->
           [w |-> [w EXCEPT !.memory.controller2 = read_bit(@).c],
            v |-> port_byte(read_bit(w.memory.controller2).v)]
      [] OTHER -> [w |-> w, v |-> 0]

\* read_block: the reads are made one by one, lowest address first; a read
\* that raises ends the block
RECURSIVE read_block(_, _, _)
read_block(w, address, bytes) ==
    IF bytes = 0 THEN [w |-> w, data |-> <<>>]
    ELSE IF bytes = 1
    THEN LET r == mem_read(w, address)
         IN  [w |-> r.w, data |-> <<r.v>>]
    ELSE LET h == bytes \div 2
             a == read_block(w, address, h)
         IN  IF a.w.halted THEN a
             ELSE LET b == read_block(a.w, address + h, bytes - h)
                  IN  [w |-> b.w, data |-> a.data \o b.data]

write_oam(w, data) ==
    [w EXCEPT !.ppu.oam = Sparse([i \in 0..(OAM_SIZE_BYTES - 1) |-> data[i]])]

\* run_oam_dma: the block of OAM_SIZE_BYTES bytes handed to write_oam, the
\* first read_block placed from oam_addr on and the second one before it
data_block(oam_addr, first, second) ==
    [i \in 0..(OAM_SIZE_BYTES - 1) |->
        IF i >= oam_addr THEN first[i - oam_addr + 1] ELSE second[i + 1]]

\* run_oam_dma: write the block and ask for the CPU stall
dma_store(oam_addr, r1, r2) ==
    IF r2.w.halted THEN r2.w
    ELSE raise_oam_dma_pause(write_oam(r2.w, data_block(oam_addr, r1.data, r2.data)))

\* run_oam_dma: the second read_block, made when oam_addr > 0 wraps
dma_wrap(oam_addr, page, r1) ==
    IF r1.w.halted THEN r1.w
    ELSE dma_store(oam_addr, r1, read_block(r1.w, page * 256, oam_addr))

run_oam_dma(w, page) ==
    dma_wrap(w.ppu.oam_addr, page,
             read_block(w, page * 256, OAM_SIZE_BYTES - w.ppu.oam_addr))

mem_write(w, address, value) ==
    CASE region(address) = "ram" ->
           [w EXCEPT !.memory.ram = Put(@, address % RAM_SIZE, value)]
      [] region(address) = "ppu" ->
           write_register(w, address % NUM_PPU_REGISTERS, value)
      [] region(address) = "apu/oam" /\ address = OAM_DMA ->
           run_oam_dma(w, value)
      [] region(address) = "apu/oam" /\ address = CONTROLLER1 ->
           [w EXCEPT !.memory.controller1 = set_strobe(@, value),
                     !.memory.controller2 = set_strobe(@, value)]
      [] region(address) = "cart" -> cart_write(w, address, value)
      [] OTHER -> w

-----------------------------------------------------------------------------
(* BigEmptyRAM: 64 kB of RAM behind every address.  A Python index from    *)
(* -65536 to -1 counts from the end of the array, any other index outside  *)
(* the array raises IndexError.                                             *)

big_read(w, address) ==
    IF address \in -65536 .. 65535
    THEN [w |-> w, v |-> Get(w.memory.ram, address % 65536)]
    ELSE [w |-> [w EXCEPT !.halted = TRUE], v |-> 0]

big_write(w, address, value) ==
    IF address \in -65536 .. 65535
    THEN [w EXCEPT !.memory.ram = Put(@, address % 65536, value)]
    ELSE [w EXCEPT !.halted = TRUE]

(* The memory object the CPU was built with: self.memory.read and          *)
(* self.memory.write                                                        *)

memory_read(w, address) ==
    IF w.memory.class = "BigEmptyRAM" THEN big_read(w, address)
    ELSE mem_read(w, address)

memory_write(w, address, value) ==
    IF w.memory.class = "BigEmptyRAM" THEN big_write(w, address, value)
    ELSE mem_write(w, address, value)

-----------------------------------------------------------------------------
(* MOS6502 *)

_status_to_byte(c, b_flag) ==
    (B2N(c.N) * SR_N_MASK + B2N(c.V) * SR_V_MASK + SR_X_MASK
     + B2N(b_flag) * SR_B_MASK + B2N(c.D) * SR_D_MASK + B2N(c.I) * SR_I_MASK
     + B2N(c.Z) * SR_Z_MASK + B2N(c.C) * SR_C_MASK) % 256

push_stack(w, v) ==
    [memory_write(w, STACK_PAGE + w.cpu.SP, v) EXCEPT !.cpu.SP = (w.cpu.SP - 1) % 256]

\* the word read high byte first
_read_word_high_first(w, addr) ==
    LET hi == memory_read(w, addr)
        lo == memory_read(hi.w, addr + 1)
    IN  [w |-> lo.w, v |-> lo.v + hi.v * 256]

\* _read_word without page wrap: [w, v]
_read_word(w, addr) ==
    LET lo == memory_read(w, addr)
        hi == memory_read(lo.w, addr + 1)
    IN  [w |-> hi.w, v |-> lo.v + hi.v * 256]

\* _interrupt: push the return address v, high byte first
push_pc(w, v) ==
    push_stack(push_stack(w, BitAnd(v, 65280) \div 256), BitAnd(v, 255))

\* the status pushed with the B bit set by every interrupt
push_status_b_set(w, is_brk) == push_stack(w, _status_to_byte(w.cpu, TRUE))

\* _interrupt: push the status register
push_status(w, is_brk) == push_stack(w, _status_to_byte(w.cpu, is_brk))

\* _interrupt: jump to the address a.v read from the vector
jump_to_vector(a, is_brk) ==
    [a.w EXCEPT !.cpu.PC = a.v,
                !.cpu.I = IF is_brk THEN @ ELSE TRUE]

_interrupt(w, interrupt_vector, is_brk) ==
    jump_to_vector(
        _read_word(push_status(push_pc(w, w.cpu.PC + (IF is_brk THEN 1 ELSE 0)),
                               is_brk),
                   interrupt_vector),
        is_brk)

\* trigger_nmi; the cycles it returns are INTERRUPT_REQUEST_CYCLES
trigger_nmi(w) ==
    [_interrupt(w, NMI_VECTOR_ADDR, FALSE)
        EXCEPT !.cpu.cycles_since_reset = @ + INTERRUPT_REQUEST_CYCLES]

\* a stall of the same length on every cycle
OamDmaPauseFlat(cycles_since_reset) == OAM_DMA_CPU_CYCLES

\* the cycles oam_dma_pause returns
OamDmaPauseCycles(cycles_since_reset) ==
    OAM_DMA_CPU_CYCLES + (cycles_since_reset % 2)

oam_dma_pause(w) ==
    [w EXCEPT !.cpu.cycles_since_reset =
        @ + OamDmaPauseCycles(w.cpu.cycles_since_reset)]

set_reset_vector(w, reset_vector) ==
    memory_write(memory_write(w, RESET_VECTOR_ADDR, BitAnd(reset_vector, 255)),
                 RESET_VECTOR_ADDR + 1, BitAnd(reset_vector, 65280) \div 256)

reset(w) ==
    LET a == _read_word(w, RESET_VECTOR_ADDR)
    IN  [a.w EXCEPT !.cpu.PC = a.v, !.cpu.A = 0, !.cpu.X = 0, !.cpu.Y = 0,
                    !.cpu.SP = 253,
                    !.cpu.N = FALSE, !.cpu.V = FALSE, !.cpu.D = FALSE,
                    !.cpu.I = TRUE, !.cpu.Z = FALSE, !.cpu.C = FALSE,
                    !.cpu.cycles_since_reset = 7]

_set_zn(w, v) ==
    [w EXCEPT !.cpu.Z = (BitAnd(v, 255) = 0), !.cpu.N = (BitAnd(v, 128) > 0)]

_lda(w, arg, immediate) ==
    IF immediate THEN _set_zn([w EXCEPT !.cpu.A = arg], arg)
    ELSE LET r == memory_read(w, arg)
         IN  _set_zn([r.w EXCEPT !.cpu.A = r.v], r.v)

_sta(w, addr) == memory_write(w, addr, w.cpu.A)

_stx(w, addr) == memory_write(w, addr, w.cpu.X)

_jmp(w, addr) == [w EXCEPT !.cpu.PC = addr]

_nop(w) == w

\* _read_word(addr, wrap_at_page=True): at $xxFF the high byte comes from $xx00
_read_word_wrap(w, addr) ==
    IF addr % 256 = 255
    THEN LET lo == memory_read(w, addr)
             hi == memory_read(lo.w, addr - 255)
         IN  [w |-> hi.w, v |-> lo.v + hi.v * 256]
    ELSE _read_word(w, addr)

\* a pop that never raises
pop_stack_wrapping(w) ==
    memory_read([w EXCEPT !.cpu.SP = (@ + 1) % 256],
             STACK_PAGE + ((w.cpu.SP + 1) % 256))

\* pop_stack: [w |-> machine after the pop, v |-> byte read]
pop_stack(w) ==
    IF w.cpu.SP = 255 /\ w.cpu.stack_underflow_causes_exception
    THEN [w |-> [w EXCEPT !.halted = TRUE], v |-> 0]
    ELSE memory_read([w EXCEPT !.cpu.SP = (@ + 1) % 256],
                  STACK_PAGE + ((w.cpu.SP + 1) % 256))

_status_from_byte(w, sr_byte) ==
    [w EXCEPT !.cpu.N = BitAnd(sr_byte, SR_N_MASK) > 0,
              !.cpu.V = BitAnd(sr_byte, SR_V_MASK) > 0,
              !.cpu.D = BitAnd(sr_byte, SR_D_MASK) > 0,
              !.cpu.I = BitAnd(sr_byte, SR_I_MASK) > 0,
              !.cpu.Z = BitAnd(sr_byte, SR_Z_MASK) > 0,
              !.cpu.C = BitAnd(sr_byte, SR_C_MASK) > 0]

_neg(v) == BitAnd(v, 128) > 0

_from_2sc(v) == BitAnd(v, 127) - BitAnd(v, 128)

\* _adc, decimal mode: the low nibble after its correction
bcd_al(al) == IF al >= 10 THEN BitAnd(al + 6, 15) + 16 ELSE al

\* _adc, decimal mode: the sum after its correction
bcd_a1(a1) == IF a1 >= 160 THEN a1 + 96 ELSE a1

\* _adc, decimal mode.  V is assigned ~(...) of a bool, -1 or -2, both true.
adc_decimal(w, v) ==
    LET A  == w.cpu.A
        al == bcd_al(BitAnd(A, 15) + BitAnd(v, 15) + B2N(w.cpu.C))
        a1 == bcd_a1(BitAnd(A, 240) + BitAnd(v, 240) + al)
        a2 == _from_2sc(BitAnd(A, 240)) + _from_2sc(BitAnd(v, 240)) + al
    IN  [w EXCEPT !.cpu.N = BitAnd(a2 % 256, 128) > 0,
                  !.cpu.V = TRUE,
                  !.cpu.C = a1 > 255,
                  !.cpu.Z = ((A + v + B2N(w.cpu.C)) % 256 = 0),
                  !.cpu.A = a1 % 256]

\* _adc, binary mode, with the sum result
adc_binary(w, v, result) ==
    [_set_zn(w, result) EXCEPT
        !.cpu.C = result > 255,
        !.cpu.V = (_neg(w.cpu.A) = _neg(v)) /\ (_neg(w.cpu.A) # _neg(result)),
        !.cpu.A = result % 256]

\* a CPU built with support_BCD=True
support_BCD_on == TRUE

\* the support_BCD argument of MOS6502(): the default, which every caller keeps
support_BCD == FALSE

\* _adc with the operand byte v
adc_value(w, v) ==
    IF w.cpu.D /\ support_BCD THEN adc_decimal(w, v)
    ELSE adc_binary(w, v, w.cpu.A + v + B2N(w.cpu.C))

\* _adc after the operand read r
adc_read(r) == IF r.w.halted THEN r.w ELSE adc_value(r.w, r.v)

_adc(w, arg, immediate) ==
    IF immediate THEN adc_value(w, arg) ELSE adc_read(memory_read(w, arg))

\* _inc after the read r of addr
inc_read(r, addr) ==
    IF r.w.halted THEN r.w
    ELSE memory_write(_set_zn(r.w, (r.v + 1) % 256), addr, (r.v + 1) % 256)

_inc(w, addr) == inc_read(memory_read(w, addr), addr)

\* a branch that leaves the PC alone
stay(w, condition, offset_2sc) == w

\* _jump_relative: the PC after the branch
_jump_relative(w, condition, offset_2sc) ==
    IF condition THEN [w EXCEPT !.cpu.PC = @ + _from_2sc(offset_2sc)] ELSE w

\* a taken branch always costs one cycle
one_cycle_if_taken(w, condition, offset_2sc) == IF condition THEN 1 ELSE 0

\* _jump_relative: the extra cycles it returns
jump_relative_cycles(w, condition, offset_2sc) ==
    IF ~condition THEN 0
    ELSE IF BitAnd(w.cpu.PC % 65536, 65280)
            # BitAnd((w.cpu.PC + _from_2sc(offset_2sc)) % 65536, 65280)
    THEN 2
    ELSE 1

\* the condition each branch instruction hands to _jump_relative
branch_condition(c, name) ==
    CASE name = "bcc" -> ~c.C
      [] name = "bcs" -> c.C
      [] name = "beq" -> c.Z
      [] name = "bne" -> ~c.Z
      [] name = "bmi" -> c.N
      [] name = "bpl" -> ~c.N
      [] name = "bvc" -> ~c.V
      [] name = "bvs" -> c.V

Branches == {"bcc", "bcs", "beq", "bne", "bmi", "bpl", "bvc", "bvs"}

\* BRK that also sets the interrupt disable flag
brk_sets_i(w) == [_interrupt(w, IRQ_BRK_VECTOR_ADDR, TRUE) EXCEPT !.cpu.I = TRUE]

_brk(w) == _interrupt(w, IRQ_BRK_VECTOR_ADDR, TRUE)

\* KIL that does nothing
kil_ignored(w) == w

\* _kil: raises ValueError, as undocumented_support_level is 2
_kil(w) == [w EXCEPT !.halted = TRUE]

_jsr(w, addr) == [push_pc(w, w.cpu.PC - 1) EXCEPT !.cpu.PC = addr]

_pha(w) == push_stack(w, w.cpu.A)

_php(w) == push_stack(w, _status_to_byte(w.cpu, TRUE))

\* _pla after the pop r
pla_pop(r) ==
    IF r.w.halted THEN r.w ELSE _set_zn([r.w EXCEPT !.cpu.A = r.v], r.v)

_pla(w) == pla_pop(pop_stack(w))

\* _plp after the pop r
plp_pop(r) == IF r.w.halted THEN r.w ELSE _status_from_byte(r.w, r.v)

_plp(w) == plp_pop(pop_stack(w))

\* _rti after its three pops
rti_hi(flags, lo, hi) ==
    IF hi.w.halted THEN hi.w
    ELSE [_status_from_byte(hi.w, flags.v) EXCEPT !.cpu.PC = hi.v * 256 + lo.v]

rti_lo(flags, lo) ==
    IF lo.w.halted THEN lo.w ELSE rti_hi(flags, lo, pop_stack(lo.w))

rti_flags(flags) ==
    IF flags.w.halted THEN flags.w ELSE rti_lo(flags, pop_stack(flags.w))

_rti(w) == rti_flags(pop_stack(w))

\* _rts after its two pops
rts_hi(lo, hi) ==
    IF hi.w.halted THEN hi.w ELSE [hi.w EXCEPT !.cpu.PC = hi.v * 256 + lo.v + 1]

rts_lo(lo) == IF lo.w.halted THEN lo.w ELSE rts_hi(lo, pop_stack(lo.w))

_rts(w) == rts_lo(pop_stack(w))

(* The instructions of the model: addressing mode, size in bytes, the whole *)
(* part of the cycles the instruction table gives, and whether the table's  *)
(* cycles have a fractional part, which marks the instructions that take    *)
(* one more cycle when indexing crosses a page.                             *)
InstructionTable ==
    [nop      |-> [mode |-> "implied",    size_bytes |-> 1, cycles |-> 2, fraction |-> FALSE],
     lda_imm  |-> [mode |-> "immediate",  size_bytes |-> 2, cycles |-> 2, fraction |-> FALSE],
     lda_abs  |-> [mode |-> "absolute",   size_bytes |-> 3, cycles |-> 4, fraction |-> FALSE],
     sta_abs  |-> [mode |-> "absolute",   size_bytes |-> 3, cycles |-> 4, fraction |-> FALSE],
     stx_abs  |-> [mode |-> "absolute",   size_bytes |-> 3, cycles |-> 4, fraction |-> FALSE],
     jmp_abs  |-> [mode |-> "absolute",   size_bytes |-> 3, cycles |-> 3, fraction |-> FALSE],
     lda_absx |-> [mode |-> "absolute_x", size_bytes |-> 3, cycles |-> 4, fraction |-> TRUE],
     lda_absy |-> [mode |-> "absolute_y", size_bytes |-> 3, cycles |-> 4, fraction |-> TRUE],
     lda_indy |-> [mode |-> "indirect_y", size_bytes |-> 2, cycles |-> 5, fraction |-> TRUE],
     adc_absx |-> [mode |-> "absolute_x", size_bytes |-> 3, cycles |-> 4, fraction |-> TRUE],
     sta_absx |-> [mode |-> "absolute_x", size_bytes |-> 3, cycles |-> 5, fraction |-> FALSE],
     sta_absy |-> [mode |-> "absolute_y", size_bytes |-> 3, cycles |-> 5, fraction |-> FALSE],
     sta_indy |-> [mode |-> "indirect_y", size_bytes |-> 2, cycles |-> 6, fraction |-> FALSE],
     inc_absx |-> [mode |-> "absolute_x", size_bytes |-> 3, cycles |-> 7, fraction |-> FALSE],
     adc_imm  |-> [mode |-> "immediate",  size_bytes |-> 2, cycles |-> 2, fraction |-> FALSE],
     bcc      |-> [mode |-> "relative",   size_bytes |-> 2, cycles |-> 2, fraction |-> FALSE],
     bcs      |-> [mode |-> "relative",   size_bytes |-> 2, cycles |-> 2, fraction |-> FALSE],
     beq      |-> [mode |-> "relative",   size_bytes |-> 2, cycles |-> 2, fraction |-> FALSE],
     bne      |-> [mode |-> "relative",   size_bytes |-> 2, cycles |-> 2, fraction |-> FALSE],
     bmi      |-> [mode |-> "relative",   size_bytes |-> 2, cycles |-> 2, fraction |-> FALSE],
     bpl      |-> [mode |-> "relative",   size_bytes |-> 2, cycles |-> 2, fraction |-> FALSE],
     bvc      |-> [mode |-> "relative",   size_bytes |-> 2, cycles |-> 2, fraction |-> FALSE],
     bvs      |-> [mode |-> "relative",   size_bytes |-> 2, cycles |-> 2, fraction |-> FALSE],
     brk      |-> [mode |-> "implied",    size_bytes |-> 1, cycles |-> 7, fraction |-> FALSE],
     kil      |-> [mode |-> "implied",    size_bytes |-> 1, cycles |-> 2, fraction |-> FALSE],
     jsr      |-> [mode |-> "absolute",   size_bytes |-> 3, cycles |-> 6, fraction |-> FALSE],
     pha      |-> [mode |-> "implied",    size_bytes |-> 1, cycles |-> 3, fraction |-> FALSE],
     php      |-> [mode |-> "implied",    size_bytes |-> 1, cycles |-> 3, fraction |-> FALSE],
     pla      |-> [mode |-> "implied",    size_bytes |-> 1, cycles |-> 4, fraction |-> FALSE],
     plp      |-> [mode |-> "implied",    size_bytes |-> 1, cycles |-> 4, fraction |-> FALSE],
     rti      |-> [mode |-> "implied",    size_bytes |-> 1, cycles |-> 6, fraction |-> FALSE],
     rts      |-> [mode |-> "implied",    size_bytes |-> 1, cycles |-> 6, fraction |-> FALSE]]

\* int(instr.cycles), the base cycles of the instruction
InstrCycles(name) == InstructionTable[name].cycles

\* run_next_instr: the first call resets the CPU
first_reset(w) ==
    IF ~w.cpu.started THEN reset([w EXCEPT !.cpu.started = TRUE]) ELSE w

\* run_next_instr: the PC moves past the instruction before it executes
advance_pc(w, name) ==
    [w EXCEPT !.cpu.PC = @ + InstructionTable[name].size_bytes]

\* the extra cycle given whenever the index crosses a page
cross_always(name, lo_byte, index) == B2N(lo_byte + index > 255)

\* run_next_instr: the extra cycle of an indexed mode
cross_cycles(name, lo_byte, index) ==
    B2N(lo_byte + index > 255 /\ InstructionTable[name].fraction)

\* run_next_instr, mode (indirect),Y after the read m of the pointer
indirect_y(m, name) ==
    [w |-> m.w, arg |-> (m.v + m.w.cpu.Y) % 65536,
     extra |-> cross_cycles(name, m.v % 256, m.w.cpu.Y)]

\* run_next_instr: the argument handed to the instruction and the extra
\* cycles of the addressing mode, from the operand data (the byte after the
\* opcode, or the little-endian word after it) of the instruction at PC
argument(w, name, data) ==
    CASE InstructionTable[name].mode = "absolute_x" ->
           [w |-> w, arg |-> (data + w.cpu.X) % 65536,
            extra |-> cross_cycles(name, data % 256, w.cpu.X)]
      [] InstructionTable[name].mode = "absolute_y" ->
           [w |-> w, arg |-> (data + w.cpu.Y) % 65536,
            extra |-> cross_cycles(name, data % 256, w.cpu.Y)]
      [] InstructionTable[name].mode = "indirect_y" ->
           indirect_y(_read_word_wrap(w, data), name)
      [] OTHER -> [w |-> w, arg |-> data, extra |-> 0]

\* run_next_instr: the instruction's method
execute(w, name, arg) ==
    CASE name = "nop"     -> _nop(w)
      [] name = "lda_imm" -> _lda(w, arg, TRUE)
      [] name \in {"lda_abs", "lda_absx", "lda_absy", "lda_indy"} -> _lda(w, arg, FALSE)
      [] name \in {"sta_abs", "sta_absx", "sta_absy", "sta_indy"} -> _sta(w, arg)
      [] name = "stx_abs" -> _stx(w, arg)
      [] name = "jmp_abs" -> _jmp(w, arg)
      [] name = "adc_imm" -> _adc(w, arg, TRUE)
      [] name = "adc_absx" -> _adc(w, arg, FALSE)
      [] name = "inc_absx" -> _inc(w, arg)
      [] name \in Branches -> _jump_relative(w, branch_condition(w.cpu, name), arg)
      [] name = "brk"     -> _brk(w)
      [] name = "kil"     -> _kil(w)
      [] name = "jsr"     -> _jsr(w, arg)
      [] name = "pha"     -> _pha(w)
      [] name = "php"     -> _php(w)
      [] name = "pla"     -> _pla(w)
      [] name = "plp"     -> _plp(w)
      [] name = "rti"     -> _rti(w)
      [] name = "rts"     -> _rts(w)

\* run_next_instr: the cycles the instruction's method returns
add_cycles(w, name, arg) ==
    IF name \in Branches
    THEN jump_relative_cycles(w, branch_condition(w.cpu, name), arg)
    ELSE 0

\* run_next_instr: count the cycles, unless the instruction raised
count_cycles(w, cycles) ==
    IF w.halted THEN w ELSE [w EXCEPT !.cpu.cycles_since_reset = @ + cycles]

\* run_next_instr from the argument a on
run_function(a, name) ==
    IF a.w.halted THEN a.w
    ELSE count_cycles(execute(a.w, name, a.arg),
                      InstrCycles(name) + a.extra + add_cycles(a.w, name, a.arg))

\* run_next_instr for the instruction name with operand data found at PC; the
\* instruction bytes lie in PRG-ROM, so fetching them changes nothing
run_next_instr(w, name, data) ==
    run_function(argument(advance_pc(first_reset(w), name), name, data), name)

\* the cycles run_next_instr returns
returned_cycles(w, name, data) ==
    run_next_instr(w, name, data).cpu.cycles_since_reset
    - first_reset(w).cpu.cycles_since_reset

-----------------------------------------------------------------------------
(* The machine after construction (NES.__init__, which resets the CPU)     *)

\* the cartridge: CHR-ROM bytes and the interrupt vectors of the PRG-ROM.
\* The program bytes are left open: each step chooses the instruction at PC.
PowerUpCart ==
    [chr_mem |-> (0 :> 17) @@ (1 :> 34) @@ (9 :> 129) @@ (32 :> 51),
     prg_rom |-> (32763 :> 144) @@ (32765 :> 128),
     ram |-> EmptyBytes,
     prg_start_addr |-> PRG_ROM_START, prg_rom_len |-> PRG_ROM_SIZE,
     nametable_mirror_pattern |-> MIRROR_HORIZONTAL]

PowerUpPpu ==
    [ppu_ctrl |-> 0, ppu_mask |-> 0, oam_addr |-> 0, oam_addr_held |-> 0,
     ppu_scroll |-> <<0, 0>>, ppu_addr |-> 0, ppu_byte_latch |-> 0,
     ppu_data_buffer |-> 0, io_latch |-> 0,
     line |-> 0, pixel |-> 0,
     in_vblank |-> FALSE, sprite_zero_hit |-> FALSE, sprite_overflow |-> FALSE,
     cycles_since_reset |-> 0, cycles_since_frame |-> 0, frames_since_reset |-> 0,
     oam |-> EmptyBytes, nametables |-> EmptyBytes, palette_ram |-> EmptyBytes,
     palette |-> <<SubSeq(DEFAULT_NES_PALETTE, 1, 3),
                   SubSeq(DEFAULT_NES_PALETTE, 4, 6)>>,
     pattern_lo |-> 0, pattern_hi |-> 0,
     sprite_pattern |-> [i \in 1 .. 8 |-> [x \in 1 .. 8 |-> NoColor]],
     sprite_bkg_priority |-> [i \in 1 .. 8 |-> FALSE],
     active_sprites |-> <<>>,
     row |-> 0, col |-> 0,
     frame_ended |-> FALSE]

PowerUpCpu ==
    [PC |-> 32768, SP |-> 253, A |-> 0, X |-> 0, Y |-> 0,
     N |-> FALSE, V |-> FALSE, D |-> FALSE, I |-> TRUE, Z |-> FALSE, C |-> FALSE,
     cycles_since_reset |-> 7, started |-> FALSE,
     stack_underflow_causes_exception |-> FALSE]

NoTicks ==
    [tick_nmi |-> 0, write_nmi |-> 0, vbl_ticks |-> 0,
     screen_writes |-> 0, written |-> <<>>]

PowerUp ==
    [cpu |-> PowerUpCpu, ppu |-> PowerUpPpu,
     memory |-> [class |-> "NESMappedRAM", ram |-> EmptyBytes,
                 controller1 |-> NewController(TRUE),
                 controller2 |-> NewController(FALSE)],
     interrupt_listener |-> [nmi |-> FALSE, irq |-> FALSE, oam_dma_pause |-> FALSE],
     cart |-> PowerUpCart, halted |-> FALSE, g |-> NoTicks]

\* the PPU run two cycles for each CPU cycle
PpuCyclesTwo(cpu_cycles) == cpu_cycles * 2

\* the PPU cycles the runner asks for after cpu_cycles CPU cycles
PpuCycles(cpu_cycles) == cpu_cycles * PPU_CYCLES_PER_CPU_CYCLE

\* The machine after k steps that each execute a NOP from PowerUp.  No frame
\* ends within the starts used below, so the k calls run_cycles(6) leave the
\* PPU where 6k loop iterations leave it.
NopRun(k) ==
    IF k = 0 THEN PowerUp
    ELSE LET w == run_cycles(PowerUp, k * PpuCycles(InstrCycles("nop")))
         IN  [w EXCEPT !.cpu.started = TRUE,
                       !.cpu.PC = @ + k * InstructionTable["nop"].size_bytes,
                       !.cpu.cycles_since_reset = @ + k * InstrCycles("nop"),
                       !.g = NoTicks]

\* the current machine
W == [cpu |-> cpu, ppu |-> ppu, memory |-> memory,
      interrupt_listener |-> interrupt_listener, cart |-> cart,
      halted |-> halted, g |-> NoTicks]

Commit(w) ==
    /\ cpu' = w.cpu
    /\ ppu' = w.ppu
    /\ memory' = w.memory
    /\ interrupt_listener' = w.interrupt_listener
    /\ cart' = w.cart
    /\ halted' = w.halted
    /\ rom' = rom

-----------------------------------------------------------------------------
(* What the last operation did, for the properties below                   *)

NoInstr == [name |-> "none", arg |-> 0]

NoLast ==
    [kind |-> "none", cycles |-> 0, name |-> "none", arg |-> 0, v |-> 0,
     nmi_before |-> FALSE, dma_before |-> FALSE,
     tick_nmi |-> 0, write_nmi |-> 0, vbl_ticks |-> 0,
     frame_nmis |-> 0, frame_tick_nmis |-> 0, frame_closed |-> FALSE,
     since_status |-> 0]

\* the PPU register access of an operation: <<"r" | "w" | "-", register>>
Access(kind, name, arg) ==
    IF kind \in {"read", "write"}
    THEN <<IF kind = "read" THEN "r" ELSE "w", arg>>
    ELSE IF kind = "instr" /\ name \in {"lda_abs", "sta_abs", "stx_abs"}
            /\ region(arg) = "ppu"
    THEN <<IF name = "lda_abs" THEN "r" ELSE "w", arg % NUM_PPU_REGISTERS>>
    ELSE <<"-", 0>>

\* kind: "nmi", "dma", "instr" (a step), "read", "write" (a register access)
\* or "bus_read", "bus_write" (a CPU bus access); cycles: the CPU cycles of a
\* step; v: the byte read or written; frame_nmis: the calls of _trigger_nmi in
\* the frame the operation began in, frame_tick_nmis: those made by a tick;
\* since_status: PPUSCROLL and PPUADDR writes since the last PPUSTATUS read
Did(kind, cycles, instr, v, w) ==
    LET acc == Access(kind, instr.name, instr.arg)
    IN  [kind |-> kind, cycles |-> cycles, name |-> instr.name, arg |-> instr.arg,
         v |-> v,
         nmi_before |-> interrupt_listener.nmi,
         dma_before |-> interrupt_listener.oam_dma_pause,
         tick_nmi |-> w.g.tick_nmi, write_nmi |-> w.g.write_nmi,
         vbl_ticks |-> w.g.vbl_ticks,
         frame_nmis |-> (IF last.frame_closed THEN 0 ELSE last.frame_nmis)
                        + w.g.tick_nmi + w.g.write_nmi,
         frame_tick_nmis |-> (IF last.frame_closed THEN 0 ELSE last.frame_tick_nmis)
                             + w.g.tick_nmi,
         frame_closed |-> w.ppu.frames_since_reset # ppu.frames_since_reset,
         since_status |->
             IF acc = <<"r", PPU_STATUS>> THEN 0
             ELSE IF acc[1] = "w" /\ acc[2] \in {PPU_SCROLL, PPU_ADDR}
             THEN last.since_status + 1
             ELSE last.since_status]

InitAt(starts) ==
    /\ \E k \in starts :
         \E w \in {NopRun(k)} :
             /\ cpu = w.cpu
             /\ ppu = w.ppu
             /\ memory = w.memory
             /\ interrupt_listener = w.interrupt_listener
             /\ cart = w.cart
             /\ halted = w.halted
    /\ rom = None
    /\ last = NoLast
    /\ ops = 0

-----------------------------------------------------------------------------
(* The system runner: NES.step                                              *)

\* NOP steps already taken at the start of a run: power-up, shortly before
\* the end of the PPUCTRL warm-up, before the tick at (241, 1), and in the
\* vertical blank before the tick at (261, 1)
StartNops == {0, 4940, 13693, 14820}

InWindow(c) ==
    \E k \in StartNops : 7 + 2 * k <= c /\ c < 7 + 2 * k + Window

Instructions ==
    {[name |-> "nop", arg |-> 0],
     [name |-> "lda_imm", arg |-> 128],
     [name |-> "lda_abs", arg |-> 8194],
     [name |-> "sta_abs", arg |-> 8192],
     [name |-> "sta_abs", arg |-> 16404],
     [name |-> "stx_abs", arg |-> 8192],
     [name |-> "jmp_abs", arg |-> 32768]}

reset_nmi(w) == [w EXCEPT !.interrupt_listener.nmi = FALSE]

reset_oam_dma_pause(w) == [w EXCEPT !.interrupt_listener.oam_dma_pause = FALSE]

\* the PPU catches up with the instruction, unless the instruction raised
run_ppu(w, cpu_cycles) ==
    IF w.halted THEN w ELSE run_cycles(w, PpuCycles(cpu_cycles))

CanStep == ~halted /\ InWindow(cpu.cycles_since_reset)

\* a DMA pause served ahead of a pending NMI
step_branch_dma_first(il) ==
    IF ~any_active(il) THEN "instr"
    ELSE IF il.oam_dma_pause THEN "dma"
    ELSE IF il.nmi THEN "nmi"
    ELSE "irq"

\* the branch NES.step takes
step_branch(il) ==
    IF ~any_active(il) THEN "instr"
    ELSE IF il.nmi THEN "nmi"
    ELSE IF il.irq THEN "irq"
    ELSE "dma"

\* step, an NMI is pending: service it and clear the latch
StepNMI ==
    /\ CanStep
    /\ step_branch(interrupt_listener) = "nmi"
    /\ \E w3 \in {run_cycles(reset_nmi(trigger_nmi(W)),
                             PpuCycles(INTERRUPT_REQUEST_CYCLES))} :
           /\ Commit(w3)
           /\ last' = Did("nmi", INTERRUPT_REQUEST_CYCLES, NoInstr, 0, w3)
    /\ UNCHANGED ops

\* step, no NMI or IRQ but a DMA pause is pending: stall and clear the flag
StepDMA ==
    /\ CanStep
    /\ step_branch(interrupt_listener) = "dma"
    /\ \E w3 \in {run_cycles(reset_oam_dma_pause(oam_dma_pause(W)),
                             PpuCycles(OamDmaPauseCycles(cpu.cycles_since_reset)))} :
           /\ Commit(w3)
           /\ last' = Did("dma", OamDmaPauseCycles(cpu.cycles_since_reset),
                          NoInstr, 0, w3)
    /\ UNCHANGED ops

\* step, nothing pending: run the next instruction
StepInstr(instr) ==
    /\ CanStep
    /\ step_branch(interrupt_listener) = "instr"
    /\ \E w3 \in {run_ppu(run_next_instr(W, instr.name, instr.arg),
                          InstrCycles(instr.name))} :
           /\ Commit(w3)
           /\ last' = Did("instr", InstrCycles(instr.name), instr, 0, w3)
    /\ UNCHANGED ops

Init == InitAt(StartNops)

Next ==
    \/ StepNMI
    \/ StepDMA
    \/ \E instr \in Instructions : StepInstr(instr)

Spec == Init /\ [][Next]_vars

-----------------------------------------------------------------------------
(* The PPU register file used directly: NESPPU.read_register and            *)
(* NESPPU.write_register                                                    *)

RegReads == {PPU_CTRL, PPU_STATUS, OAM_DATA, PPU_DATA}

RegWrites ==
    {<<PPU_CTRL, 4>>, <<PPU_STATUS, 1>>, <<OAM_ADDR, 1>>, <<OAM_DATA, 7>>,
     <<PPU_SCROLL, 5>>, <<PPU_ADDR, 0>>, <<PPU_ADDR, 48>>, <<PPU_ADDR, 63>>,
     <<PPU_DATA, 9>>}

PpuRead(register) ==
    /\ ~halted
    /\ ops < MaxRegOps
    /\ \E r \in {read_register(W, register)} :
           /\ Commit(r.w)
           /\ last' = Did("read", 0, [name |-> "none", arg |-> register], r.v, r.w)
    /\ ops' = ops + 1

PpuWrite(register, value) ==
    /\ ~halted
    /\ ops < MaxRegOps
    /\ \E w1 \in {write_register(W, register, value)} :
           /\ Commit(w1)
           /\ last' = Did("write", 0, [name |-> "none", arg |-> register], value, w1)
    /\ ops' = ops + 1

\* power-up, and the vertical blank of the first frame (after the warm-up)
RegStartNops == {0, 14820}

InitReg == InitAt(RegStartNops)

NextReg ==
    \/ \E register \in RegReads : PpuRead(register)
    \/ \E a \in RegWrites : PpuWrite(a[1], a[2])

SpecReg == InitReg /\ [][NextReg]_vars

-----------------------------------------------------------------------------
(* The PPU register file and the runner together: the program under run is  *)
(* NOPs, and the registers are also accessed between steps                  *)

NmiInstructions == {[name |-> "nop", arg |-> 0]}

NmiWrites == {<<PPU_CTRL, 128>>, <<PPU_CTRL, 0>>}

NextNmi ==
    \/ StepNMI
    \/ \E instr \in NmiInstructions : StepInstr(instr)
    \/ PpuRead(PPU_STATUS)
    \/ \E a \in NmiWrites : PpuWrite(a[1], a[2])

SpecNmi == Init /\ [][NextNmi]_vars

-----------------------------------------------------------------------------
(* The CPU bus used directly: NESMappedRAM.read and NESMappedRAM.write      *)

\* $0000, $0200, $07FF, $0800, $0802, $1FFF, $2002, $8000
BusReads == {0, 512, 2047, 2048, 2050, 8191, 8194, 32768}

\* RAM and mirror cells, OAMADDR, OAMDATA, and a DMA from pages 0 and 2
BusWrites ==
    {<<0, 9>>, <<512, 7>>, <<767, 5>>, <<2048, 128>>, <<4096, 3>>,
     <<8195, 1>>, <<8195, 254>>, <<8196, 6>>, <<16404, 0>>, <<16404, 2>>}

BusRead(address) ==
    /\ ~halted
    /\ ops < MaxMemOps
    /\ \E r \in {mem_read(W, address)} :
           /\ Commit(r.w)
           /\ last' = Did("bus_read", 0, [name |-> "none", arg |-> address], r.v, r.w)
    /\ ops' = ops + 1

BusWrite(address, value) ==
    /\ ~halted
    /\ ops < MaxMemOps
    /\ \E w1 \in {mem_write(W, address, value)} :
           /\ Commit(w1)
           /\ last' = Did("bus_write", 0, [name |-> "none", arg |-> address], value, w1)
    /\ ops' = ops + 1

NextMem ==
    \/ \E address \in BusReads : BusRead(address)
    \/ \E a \in BusWrites : BusWrite(a[1], a[2])

SpecMem == InitReg /\ [][NextMem]_vars

-----------------------------------------------------------------------------
(* The CPU reset in the middle of a run: MOS6502.reset                      *)

\* the reset vectors of the cartridges, <<byte at $FFFC, byte at $FFFD>>:
\* $8000, $C000 and $9234
ResetVectors == {<<0, 128>>, <<0, 192>>, <<52, 146>>}

\* register and stack pointer values a program has left behind
ByteSamples == {0, 128, 255}

StackSamples == {253, 17}

CycleSamples == {7, 1000}

\* the cartridge with the reset vector v
CartWithVector(v) ==
    [PowerUpCart EXCEPT !.prg_rom =
        Put(Put(@, (RESET_VECTOR_ADDR - PRG_ROM_START) % PRG_ROM_SIZE, v[1]),
            (RESET_VECTOR_ADDR + 1 - PRG_ROM_START) % PRG_ROM_SIZE, v[2])]

\* a started CPU with any registers and flags
InitCpu ==
    /\ \E a, x, y \in ByteSamples, sp \in StackSamples, c \in CycleSamples,
          n, v, d, i, z, cf \in BOOLEAN :
         cpu = [PC |-> 32770, SP |-> sp, A |-> a, X |-> x, Y |-> y,
                N |-> n, V |-> v, D |-> d, I |-> i, Z |-> z, C |-> cf,
                cycles_since_reset |-> c, started |-> TRUE,
                stack_underflow_causes_exception |-> FALSE]
    /\ \E vector \in ResetVectors : cart = CartWithVector(vector)
    /\ ppu = PowerUp.ppu
    /\ memory = PowerUp.memory
    /\ interrupt_listener = PowerUp.interrupt_listener
    /\ halted = FALSE
    /\ rom = None
    /\ last = NoLast
    /\ ops = 0

\* cpu.reset(); last.v keeps the accumulator of before the reset
Reset ==
    /\ ~halted
    /\ \E w1 \in {reset(W)} :
           /\ Commit(w1)
           /\ last' = Did("reset", 0, NoInstr, cpu.A, w1)
    /\ UNCHANGED ops

NextCpu == Reset

SpecCpu == InitCpu /\ [][NextCpu]_vars

-----------------------------------------------------------------------------
(* The palette through PPUADDR and PPUDATA, in the vertical blank of the    *)
(* first frame                                                              *)

\* $3F00+4k and $3F10+4k for k in 0..3
PaletteEntries == 0 .. 3

BackgroundEntry(k) == PALETTE_START + 4 * k

SpriteEntry(k) == PALETTE_START + 16 + 4 * k

\* the two PPUADDR writes that point ppu_addr at address
set_ppu_addr(w, address) ==
    write_register(write_register(w, PPU_ADDR, address \div 256),
                   PPU_ADDR, address % 256)

PalWrites ==
    {<<PPU_ADDR, PALETTE_START \div 256>>, <<PPU_DATA, 9>>, <<PPU_DATA, 5>>}
    \cup {<<PPU_ADDR, 4 * j>> : j \in 0 .. 7}

\* ppu_addr already points at one of the entries
InitPal ==
    /\ \E k \in PaletteEntries : \E address \in {BackgroundEntry(k), SpriteEntry(k)} :
         \E w \in {set_ppu_addr(NopRun(14820), address)} :
             /\ cpu = w.cpu
             /\ ppu = w.ppu
             /\ memory = w.memory
             /\ interrupt_listener = w.interrupt_listener
             /\ cart = w.cart
             /\ halted = w.halted
    /\ rom = None
    /\ last = NoLast
    /\ ops = 0

NextPal ==
    \/ ops < MaxPalOps /\ PpuRead(PPU_DATA)
    \/ \E a \in PalWrites : ops < MaxPalOps /\ PpuWrite(a[1], a[2])

SpecPal == InitPal /\ [][NextPal]_vars

-----------------------------------------------------------------------------
(* The controller ports used directly: NESMappedRAM.read and write at       *)
(* $4016/$4017, and the buttons changing between accesses                   *)

\* buttons held: A alone; B, start, down and right; all but A and left
ButtonStates ==
    {<<1, 0, 0, 0, 0, 0, 0, 0>>, <<0, 1, 0, 1, 0, 1, 0, 1>>,
     <<0, 1, 1, 1, 1, 1, 0, 1>>}

StrobeWrites == {0, 1}

\* lowered: the strobe was written non-zero and then 0, and not raised since;
\* reads: the reads of controller 1 since the strobe was last written
NoPadLast == [lowered |-> FALSE, reads |-> 0] @@ NoLast

PadDid(kind, address, v, w, lowered, reads) ==
    [lowered |-> lowered, reads |-> reads]
    @@ Did(kind, 0, [name |-> "none", arg |-> address], v, w)

InitPad ==
    /\ cpu = PowerUp.cpu
    /\ ppu = PowerUp.ppu
    /\ \E state \in ButtonStates :
         memory = [PowerUp.memory EXCEPT !.controller1.is_pressed = state]
    /\ interrupt_listener = PowerUp.interrupt_listener
    /\ cart = PowerUp.cart
    /\ halted = FALSE
    /\ rom = None
    /\ last = NoPadLast
    /\ ops = 0

\* memory.write(CONTROLLER1, value)
PadWrite(value) ==
    /\ ops < MaxPadOps
    /\ \E w1 \in {mem_write(W, CONTROLLER1, value)} :
           /\ Commit(w1)
           /\ last' = PadDid("bus_write", CONTROLLER1, value, w1,
                             value = 0 /\ memory.controller1.strobe # 0, 0)
    /\ ops' = ops + 1

\* memory.read(CONTROLLER1) or memory.read(CONTROLLER2)
PadRead(address) ==
    /\ ops < MaxPadOps
    /\ \E r \in {mem_read(W, address)} :
           /\ Commit(r.w)
           /\ last' = PadDid("bus_read", address, r.v, r.w, last.lowered,
                             IF address = CONTROLLER1 THEN last.reads + 1
                             ELSE last.reads)
    /\ ops' = ops + 1

\* controller1.set_state(state): the buttons change
PadSetState(state) ==
    /\ ops < MaxPadOps
    /\ state # memory.controller1.is_pressed
    /\ \E w1 \in {[W EXCEPT !.memory.controller1.is_pressed = state]} :
           /\ Commit(w1)
           /\ last' = PadDid("set_state", 0, 0, w1, last.lowered, last.reads)
    /\ ops' = ops + 1

NextPad ==
    \/ \E value \in StrobeWrites : PadWrite(value)
    \/ \E address \in {CONTROLLER1, CONTROLLER2} : PadRead(address)
    \/ \E state \in ButtonStates : PadSetState(state)

SpecPad == InitPad /\ [][NextPad]_vars

-----------------------------------------------------------------------------
(* The PPU run tick by tick from power-up with rendering set up: the        *)
(* program has filled OAM through OAMADDR and OAMDATA and written PPUMASK   *)
(* before the first tick                                                    *)

\* a sprite off the screen
HiddenSprite == <<240, 0, 0, 0>>

\* The sprite tables, <<Y, tile, attributes, X>> for sprites 0..63 (index
\* n + 1 is sprite n):
\*   three sprites, sprite 0 flipped at the left edge, sprite 9 one line down
\*   and behind the background;
\*   nine sprites on one line, sprite 0 at the right edge;
\*   eight sprites on one line;
\*   OAM as it is at power-up, all 64 sprites at (0, 0).
SpriteTables ==
    {[n \in 1 .. 64 |->
         CASE n = 1  -> <<0, 0, 64, 0>>
           [] n = 6  -> <<0, 0, 0, 100>>
           [] n = 10 -> <<1, 2, 32, 5>>
           [] OTHER  -> HiddenSprite],
     [n \in 1 .. 64 |->
         IF n = 1 THEN <<0, 0, 0, 252>>
         ELSE IF n <= 9 THEN <<0, 2, 1, 16 * n>>
         ELSE HiddenSprite],
     [n \in 1 .. 64 |->
         IF n <= 8 THEN <<0, 2, 0, 30 * n>> ELSE HiddenSprite],
     [n \in 1 .. 64 |-> <<0, 0, 0, 0>>]}

\* PPUMASK: rendering off; background alone; sprites alone; both, without
\* and with the eight pixels on the left
MaskSamples == {0, 8, 16, 24, 30}

\* the bytes of a sprite table in OAM order
oam_bytes(table) == [i \in 1 .. 256 |-> table[((i - 1) \div 4) + 1][((i - 1) % 4) + 1]]

\* data[from..to] written to a register one byte after the other
RECURSIVE write_bytes(_, _, _, _, _)
write_bytes(w, register, data, from, to) ==
    IF from > to THEN w
    ELSE IF from = to THEN write_register(w, register, data[from])
    ELSE LET h == write_bytes(w, register, data, from, (from + to) \div 2)
         IN  IF h.halted THEN h
             ELSE write_bytes(h, register, data, ((from + to) \div 2) + 1, to)

\* OAMADDR as the program leaves it: at sprite 0 or at sprite 8
OamAddrSamples == {0, 32}

\* the program's set-up: OAMADDR 0, the table through OAMDATA, OAMADDR, and
\* then PPUMASK
set_up(w, table, oam_addr, mask) ==
    write_register(
        write_register(
            write_bytes(write_register(w, OAM_ADDR, 0), OAM_DATA,
                        oam_bytes(table), 1, 256),
            OAM_ADDR, oam_addr),
        PPU_MASK, mask)

InitRender ==
    /\ \E table \in SpriteTables, oam_addr \in OamAddrSamples,
          mask \in MaskSamples :
         \E w \in {set_up(PowerUp, table, oam_addr, mask)} :
             /\ cpu = w.cpu
             /\ ppu = w.ppu
             /\ memory = w.memory
             /\ interrupt_listener = w.interrupt_listener
             /\ cart = w.cart
             /\ halted = w.halted
    /\ rom = None
    /\ last = NoLast
    /\ ops = 0

\* what the screen was sent by the operation
Sent(w) == [screen_writes |-> w.g.screen_writes, written |-> w.g.written]

\* ppu.run_cycles(1)
RunCycle ==
    /\ ~halted
    /\ ppu.cycles_since_reset < RenderTicks
    /\ \E w1 \in {run_cycles(W, 1)} :
           /\ Commit(w1)
           /\ last' = Sent(w1) @@ Did("tick", 0, NoInstr, 0, w1)
    /\ UNCHANGED ops

\* ppu.read_register(PPU_STATUS), once in a run
ReadStatus ==
    /\ ops < MaxStatusReads
    /\ PpuRead(PPU_STATUS)

NextRender ==
    \/ RunCycle
    \/ ReadStatus

SpecRender == InitRender /\ [][NextRender]_vars

------------------------------------------------------------------------------
(* The flags of PPUSTATUS (SpecFlags): a frame that has drawn two lines of  *)
(* sprites, met in its third line, and met again at the end of line 260     *)
(* after the program has switched rendering off; ticks and register         *)
(* accesses follow                                                          *)

\* PPUMASK of the frame: background alone (sprites are evaluated, none is
\* drawn), or background and sprites over the whole line
FlagMasks == {8, 30}

\* ticks before the first operation: two lines; all but the last two ticks
\* of line 260
FlagStarts == {682, 88999}

\* the frame after its first two lines
TwoLines(table, mask) == run_cycles(set_up(PowerUp, table, 0, mask), 682)

\* the frame at a start: at the late one the program has cleared PPUMASK
\* after the two lines
FrameAt(table, mask, start) ==
    IF start = 682 THEN TwoLines(table, mask)
    ELSE run_cycles(write_register(TwoLines(table, mask), PPU_MASK, 0),
                    start - 682)

\* the late start is taken with background and sprites on
FlagScenes ==
    {s \in SpriteTables \X FlagMasks \X FlagStarts : s[3] = 682 \/ s[2] = 30}

InitFlags ==
    /\ \E s \in FlagScenes :
         \E w \in {FrameAt(s[1], s[2], s[3])} :
             /\ cpu = w.cpu
             /\ ppu = w.ppu
             /\ memory = w.memory
             /\ interrupt_listener = w.interrupt_listener
             /\ cart = w.cart
             /\ halted = w.halted
    /\ rom = None
    /\ last = NoLast
    /\ ops = 0

\* the flags as the operation found them
FlagsBefore ==
    [vblank_before   |-> ppu.in_vblank,
     hit_before      |-> ppu.sprite_zero_hit,
     overflow_before |-> ppu.sprite_overflow]

\* ppu.run_cycles(1)
FlagTick ==
    /\ ~halted
    /\ \E start \in FlagStarts :
         /\ start <= ppu.cycles_since_reset
         /\ ppu.cycles_since_reset < start + FlagTicks
    /\ \E w1 \in {run_cycles(W, 1)} :
           /\ Commit(w1)
           /\ last' = FlagsBefore @@ Did("tick", 0, NoInstr, 0, w1)
    /\ UNCHANGED ops

\* ppu.read_register(register)
FlagRead(register) ==
    /\ ~halted
    /\ ops < MaxFlagOps
    /\ \E r \in {read_register(W, register)} :
           /\ Commit(r.w)
           /\ last' = FlagsBefore
                      @@ Did("read", 0, [name |-> "none", arg |-> register],
                             r.v, r.w)
    /\ ops' = ops + 1

\* ppu.write_register(register, value)
FlagWrite(register, value) ==
    /\ ~halted
    /\ ops < MaxFlagOps
    /\ \E w1 \in {write_register(W, register, value)} :
           /\ Commit(w1)
           /\ last' = FlagsBefore
                      @@ Did("write", 0, [name |-> "none", arg |-> register],
                             value, w1)
    /\ ops' = ops + 1

\* a write to each register, PPUMASK switching rendering off and on
FlagWrites == RegWrites \cup {<<PPU_MASK, 0>>, <<PPU_MASK, 24>>}

NextFlags ==
    \/ FlagTick
    \/ \E register \in 0 .. NUM_PPU_REGISTERS - 1 : FlagRead(register)
    \/ \E rv \in FlagWrites : FlagWrite(rv[1], rv[2])

SpecFlags == InitFlags /\ [][NextFlags]_vars

------------------------------------------------------------------------------
(* The length of a frame (SpecFrame): the PPU run from power-up through its  *)
(* first frames, one cycle at a call around each frame end and one long      *)
(* call across the body of a frame, with PPUMASK written at any point        *)

\* PPUMASK written by the program: rendering off, background and sprites on
FrameMasks == {0, 24}

\* the cycles of a frame before the last cycles of line 261, which the runs
\* take one by one
FrameBody == 261 * PIXELS_PER_LINE + 336

\* since_end: PPU cycles run since the last frame end that run_cycles
\* reported (or since power-up); ended: the call reported a frame end;
\* frame_length: the cycles between that end and the one before
NoFrameLast == [since_end |-> FrameBody, ended |-> FALSE, frame_length |-> 0]
               @@ NoLast

FrameDid(kind, n, w) ==
    [since_end    |-> IF w.ppu.frame_ended THEN 0 ELSE last.since_end + n,
     ended        |-> w.ppu.frame_ended,
     frame_length |-> IF w.ppu.frame_ended THEN last.since_end + n ELSE 0]
    @@ Did(kind, 0, NoInstr, n, w)

InitFrame ==
    /\ \E w \in {run_cycles(PowerUp, FrameBody)} :
         /\ cpu = w.cpu
         /\ ppu = w.ppu
         /\ memory = w.memory
         /\ interrupt_listener = w.interrupt_listener
         /\ cart = w.cart
         /\ halted = w.halted
    /\ rom = None
    /\ last = NoFrameLast
    /\ ops = 0

\* ppu.run_cycles(1), in the last cycles of a frame and the first of the next
FrameCycle ==
    /\ ~halted
    /\ ppu.frames_since_reset < MaxFrames
    /\ \/ ppu.cycles_since_frame >= FrameBody
       \/ ppu.cycles_since_frame < HeadCycles
    /\ \E w1 \in {run_cycles(W, 1)} :
           /\ Commit(w1)
           /\ last' = FrameDid("tick", 1, w1)
    /\ UNCHANGED ops

\* ppu.run_cycles(n) for the body of the frame
FrameRun ==
    /\ ~halted
    /\ ppu.frames_since_reset < MaxFrames
    /\ ppu.cycles_since_frame = HeadCycles
    /\ \E w1 \in {run_cycles(W, FrameBody - HeadCycles)} :
           /\ Commit(w1)
           /\ last' = FrameDid("run", FrameBody - HeadCycles, w1)
    /\ UNCHANGED ops

\* ppu.write_register(PPU_MASK, mask)
FrameMask(mask) ==
    /\ ~halted
    /\ ops < MaxMaskOps
    /\ \E w1 \in {write_register(W, PPU_MASK, mask)} :
           /\ Commit(w1)
           /\ last' = [since_end    |-> last.since_end,
                       ended        |-> FALSE,
                       frame_length |-> 0]
                      @@ Did("write", 0, [name |-> "none", arg |-> PPU_MASK],
                             mask, w1)
    /\ ops' = ops + 1

NextFrame ==
    \/ FrameCycle
    \/ FrameRun
    \/ \E mask \in FrameMasks : FrameMask(mask)

SpecFrame == InitFrame /\ [][NextFrame]_vars

-----------------------------------------------------------------------------
(* The CPU used directly: MOS6502.trigger_nmi and the instructions that use *)
(* the stack, on a CPU built by NES (stack_underflow_causes_exception=False)*)
(* or built with the defaults, as tests.py does                             *)

\* $8000 and $80FF
PcSamples == {32768, 33023}

\* the reset value, the top of the page and the three cells around its wrap
SpSamples == {253, 255, 0, 1, 2}

\* the flags N, V, D, I, Z, C a program has left behind
FlagSamples ==
    {<<FALSE, FALSE, FALSE, TRUE, FALSE, FALSE>>,
     <<TRUE, FALSE, TRUE, FALSE, FALSE, TRUE>>,
     <<FALSE, TRUE, FALSE, FALSE, TRUE, FALSE>>}

\* the cartridge whose NMI handler is at $9000 and whose IRQ/BRK handler is
\* at $A010
CartWithHandlers ==
    [PowerUpCart EXCEPT !.prg_rom =
        Put(Put(@, (IRQ_BRK_VECTOR_ADDR - PRG_ROM_START) % PRG_ROM_SIZE, 16),
            (IRQ_BRK_VECTOR_ADDR + 1 - PRG_ROM_START) % PRG_ROM_SIZE, 160)]

InitInt ==
    /\ \E pc \in PcSamples, sp \in SpSamples, f \in FlagSamples, a \in {0, 129},
          raises \in BOOLEAN :
         cpu = [PC |-> pc, SP |-> sp, A |-> a, X |-> 0, Y |-> 0,
                N |-> f[1], V |-> f[2], D |-> f[3], I |-> f[4], Z |-> f[5],
                C |-> f[6], cycles_since_reset |-> 7, started |-> TRUE,
                stack_underflow_causes_exception |-> raises]
    /\ cart = CartWithHandlers
    /\ ppu = PowerUp.ppu
    /\ memory = PowerUp.memory
    /\ interrupt_listener = PowerUp.interrupt_listener
    /\ halted = FALSE
    /\ rom = None
    /\ last = NoLast
    /\ ops = 0

\* the stack instructions, each with the operand data found after its opcode
StackInstructions ==
    {[name |-> "brk", arg |-> 0], [name |-> "pha", arg |-> 0],
     [name |-> "php", arg |-> 0], [name |-> "pla", arg |-> 0],
     [name |-> "plp", arg |-> 0], [name |-> "jsr", arg |-> 36864],
     [name |-> "rts", arg |-> 0], [name |-> "rti", arg |-> 0]}

\* cpu.trigger_nmi()
IntNmi ==
    /\ ~halted
    /\ ops < MaxStackOps
    /\ \E w1 \in {trigger_nmi(W)} :
           /\ Commit(w1)
           /\ last' = Did("trigger_nmi", INTERRUPT_REQUEST_CYCLES, NoInstr, 0, w1)
    /\ ops' = ops + 1

\* cpu.run_next_instr() with the instruction instr at PC
IntExec(instr) ==
    /\ ~halted
    /\ ops < MaxStackOps
    /\ \E w1 \in {run_next_instr(W, instr.name, instr.arg)} :
           /\ Commit(w1)
           /\ last' = Did("run_next_instr",
                          w1.cpu.cycles_since_reset - cpu.cycles_since_reset,
                          instr, 0, w1)
    /\ ops' = ops + 1

NextInt ==
    \/ IntNmi
    \/ \E instr \in StackInstructions : IntExec(instr)

SpecInt == InitInt /\ [][NextInt]_vars

-----------------------------------------------------------------------------
(* NES.step called again and again by a caller that handles the error of a  *)
(* step: a KIL opcode among the instructions.  halted says here that the    *)
(* last call raised.                                                        *)

KilInstructions ==
    {[name |-> "nop", arg |-> 0],
     [name |-> "kil", arg |-> 0],
     [name |-> "lda_imm", arg |-> 128],
     [name |-> "pha", arg |-> 0],
     [name |-> "jmp_abs", arg |-> 32768]}

\* the machine as a new call finds it: the objects as the last call left
\* them, no exception in flight
Called == [W EXCEPT !.halted = FALSE]

NoKilLast == [killed |-> FALSE] @@ NoLast

\* killed: a KIL opcode was executed and reset() has not been called since
KilDid(kind, instr, w) ==
    [killed |-> (kind = "instr" /\ (last.killed \/ instr.name = "kil"))]
    @@ Did(kind, 0, instr, 0, w)

InitKil ==
    /\ cpu = PowerUp.cpu
    /\ ppu = PowerUp.ppu
    /\ memory = PowerUp.memory
    /\ interrupt_listener = PowerUp.interrupt_listener
    /\ cart = PowerUp.cart
    /\ halted = FALSE
    /\ rom = None
    /\ last = NoKilLast
    /\ ops = 0

\* nes.step() with the instruction instr at PC; nothing is pending
KilStep(instr) ==
    /\ ops < MaxKilOps
    /\ step_branch(interrupt_listener) = "instr"
    /\ \E w3 \in {run_ppu(run_next_instr(Called, instr.name, instr.arg),
                          InstrCycles(instr.name))} :
           /\ Commit(w3)
           /\ last' = KilDid("instr", instr, w3)
    /\ ops' = ops + 1

\* nes.cpu.reset()
KilReset ==
    /\ ops < MaxKilOps
    /\ \E w1 \in {reset(Called)} :
           /\ Commit(w1)
           /\ last' = KilDid("reset", NoInstr, w1)
    /\ ops' = ops + 1

NextKil ==
    \/ \E instr \in KilInstructions : KilStep(instr)
    \/ KilReset

SpecKil == InitKil /\ [][NextKil]_vars

-----------------------------------------------------------------------------
(* The cartridge on the CPU bus: NESCart0.read and NESCart0.write through   *)
(* NESMappedRAM                                                             *)

\* $6000 (cartridge RAM), $8000, $FFFB, $FFFD and $FFFF
CartReads == {24576, 32768, 65531, 65533, 65535}

CartWrites == {<<24576, 9>>, <<32768, 7>>, <<65533, 0>>, <<65535, 1>>}

NextCart ==
    \/ \E address \in CartReads : BusRead(address)
    \/ \E a \in CartWrites : BusWrite(a[1], a[2])

SpecCart == InitReg /\ [][NextCart]_vars

-----------------------------------------------------------------------------
(* A CPU built on a memory as tests.py builds it: set_reset_vector and then *)
(* reset                                                                    *)

\* the cartridge of setup_machine_nes: 16 kB of PRG-ROM placed at $C000
TestCart ==
    [PowerUpCart EXCEPT !.prg_rom = (0 :> 76) @@ (16380 :> 4) @@ (16381 :> 192),
                        !.prg_start_addr = 49152,
                        !.prg_rom_len = 16384]

\* BigEmptyRAM, NESMappedRAM on the 32 kB cartridge, NESMappedRAM on TestCart
VecMachines ==
    {[PowerUp EXCEPT !.memory.class = "BigEmptyRAM"],
     PowerUp,
     [PowerUp EXCEPT !.cart = TestCart]}

InitVec ==
    /\ \E w \in VecMachines :
         /\ cpu = w.cpu
         /\ ppu = w.ppu
         /\ memory = w.memory
         /\ interrupt_listener = w.interrupt_listener
         /\ cart = w.cart
         /\ halted = w.halted
    /\ rom = None
    /\ last = NoLast
    /\ ops = 0

\* cpu.set_reset_vector(reset_vector) on the new CPU
SetResetVector(reset_vector) ==
    /\ ~halted
    /\ last.kind = "none"
    /\ \E w1 \in {set_reset_vector(W, reset_vector)} :
           /\ Commit(w1)
           /\ last' = Did("set_reset_vector", 0, NoInstr, reset_vector, w1)
    /\ UNCHANGED ops

\* cpu.reset() after it; last.v keeps the vector
VecReset ==
    /\ ~halted
    /\ last.kind = "set_reset_vector"
    /\ \E w1 \in {reset(W)} :
           /\ Commit(w1)
           /\ last' = Did("reset", 0, NoInstr, last.v, w1)
    /\ UNCHANGED ops

NextVec ==
    \/ /\ last.kind = "none"
       /\ \E reset_vector \in 0 .. 65535 : SetResetVector(reset_vector)
    \/ VecReset

SpecVec == InitVec /\ [][NextVec]_vars

-----------------------------------------------------------------------------
(* The CPU used directly: instructions in the indexed addressing modes      *)

\* index register values
IndexSamples == {0, 1, 128, 255}

\* RAM with the zero-page pointers $10 -> $02FF, $20 -> $0300 and
\* $FF -> $0280 (its high byte at $00), and data at $0300
PointerRam ==
    (16 :> 255) @@ (17 :> 2) @@ (33 :> 3) @@ (255 :> 128) @@ (0 :> 2)
    @@ (768 :> 129)

\* read, store and read-modify-write instructions in the modes absolute,X,
\* absolute,Y and (indirect),Y with the operand data after the opcode
IndexedInstructions ==
    {[name |-> n, arg |-> d] :
        n \in {"lda_absx", "lda_absy", "adc_absx", "sta_absx", "sta_absy", "inc_absx"},
        d \in {512, 640, 767}}
    \cup {[name |-> n, arg |-> d] : n \in {"lda_indy", "sta_indy"}, d \in {16, 32, 255}}

InitIdx ==
    /\ \E x, y \in IndexSamples, c \in BOOLEAN :
         cpu = [PC |-> 32768, SP |-> 253, A |-> 7, X |-> x, Y |-> y,
                N |-> FALSE, V |-> FALSE, D |-> FALSE, I |-> TRUE, Z |-> FALSE,
                C |-> c, cycles_since_reset |-> 7, started |-> TRUE,
                stack_underflow_causes_exception |-> FALSE]
    /\ cart = PowerUpCart
    /\ ppu = PowerUp.ppu
    /\ memory = [PowerUp.memory EXCEPT !.ram = PointerRam]
    /\ interrupt_listener = PowerUp.interrupt_listener
    /\ halted = FALSE
    /\ rom = None
    /\ last = NoLast
    /\ ops = 0

\* cpu.run_next_instr() with the instruction instr at PC
IdxExec(instr) ==
    /\ ~halted
    /\ ops < MaxIdxOps
    /\ \E w1 \in {run_next_instr(W, instr.name, instr.arg)} :
           /\ Commit(w1)
           /\ last' = Did("run_next_instr", returned_cycles(W, instr.name, instr.arg),
                          instr, 0, w1)
    /\ ops' = ops + 1

NextIdx == \E instr \in IndexedInstructions : IdxExec(instr)

SpecIdx == InitIdx /\ [][NextIdx]_vars

-----------------------------------------------------------------------------
(* The CPU used directly: the branch instructions                           *)

\* the branch opcode at $8000, $80FD or $80FE: the instruction after it
\* begins at $8002, $80FF or $8100
BranchPcSamples == {32768, 33021, 33022}

\* the offset bytes +0, +16, +127, -128 and -16
OffsetSamples == {0, 16, 127, 128, 240}

BranchInstructions == {[name |-> n, arg |-> d] : n \in Branches, d \in OffsetSamples}

InitBranch ==
    /\ \E pc \in BranchPcSamples, f \in FlagSamples :
         cpu = [PC |-> pc, SP |-> 253, A |-> 0, X |-> 0, Y |-> 0,
                N |-> f[1], V |-> f[2], D |-> f[3], I |-> f[4], Z |-> f[5],
                C |-> f[6], cycles_since_reset |-> 7, started |-> TRUE,
                stack_underflow_causes_exception |-> FALSE]
    /\ cart = PowerUpCart
    /\ ppu = PowerUp.ppu
    /\ memory = PowerUp.memory
    /\ interrupt_listener = PowerUp.interrupt_listener
    /\ halted = FALSE
    /\ rom = None
    /\ last = NoLast
    /\ ops = 0

\* cpu.run_next_instr() with the branch instr at PC
BranchExec(instr) ==
    /\ ~halted
    /\ ops < MaxBranchOps
    /\ \E w1 \in {run_next_instr(W, instr.name, instr.arg)} :
           /\ Commit(w1)
           /\ last' = Did("run_next_instr", returned_cycles(W, instr.name, instr.arg),
                          instr, 0, w1)
    /\ ops' = ops + 1

NextBranch == \E instr \in BranchInstructions : BranchExec(instr)

SpecBranch == InitBranch /\ [][NextBranch]_vars

-----------------------------------------------------------------------------
(* The CPU used directly: ADC                                               *)

\* no operation yet; A, C and D are the registers before the operation
NoAdcLast == NoLast @@ [A |-> 0, C |-> FALSE, D |-> FALSE]

InitAdc ==
    /\ \E a \in 0 .. 255, c \in BOOLEAN, d \in BOOLEAN :
         cpu = [PC |-> 32768, SP |-> 253, A |-> a, X |-> 0, Y |-> 0,
                N |-> FALSE, V |-> FALSE, D |-> d, I |-> TRUE, Z |-> FALSE,
                C |-> c, cycles_since_reset |-> 7, started |-> TRUE,
                stack_underflow_causes_exception |-> FALSE]
    /\ cart = PowerUpCart
    /\ ppu = PowerUp.ppu
    /\ memory = PowerUp.memory
    /\ interrupt_listener = PowerUp.interrupt_listener
    /\ halted = FALSE
    /\ rom = None
    /\ last = NoAdcLast
    /\ ops = 0

\* cpu.run_next_instr() with ADC #m at PC
AdcExec(m) ==
    /\ \E w1 \in {run_next_instr(W, "adc_imm", m)} :
           /\ Commit(w1)
           /\ last' = Did("run_next_instr", returned_cycles(W, "adc_imm", m),
                          [name |-> "adc_imm", arg |-> m], m, w1)
                      @@ [A |-> cpu.A, C |-> cpu.C, D |-> cpu.D]
    /\ ops' = ops + 1

\* one ADC in a run: every A, C and D of InitAdc with every operand
NextAdc ==
    /\ ~halted
    /\ last.kind = "none"
    /\ \E m \in 0 .. 255 : AdcExec(m)

SpecAdc == InitAdc /\ [][NextAdc]_vars

-----------------------------------------------------------------------------
(* ROM (src/nes/rom.py): the .nes header, get_cart and NES.__init__         *)

MIRROR_VERTICAL == <<0, 1, 0, 1>>

MIRROR_FOUR_SCREEN == <<0, 1, 2, 3>>

lower_nibble(value) == BitAnd(value, 15)

upper_nibble(value) == BitAnd(value, 240) \div 16

\* nesheader[i] of a header kept as a sequence of 16 bytes
HeaderByte(nesheader, i) == nesheader[i + 1]

\* decode_header, mapper_id: bytes 6 and 7, and byte 8 in the NES 2.0 format
header_mapper_id(nesheader, nes2) ==
    upper_nibble(HeaderByte(nesheader, 7)) * 16
    + upper_nibble(HeaderByte(nesheader, 6))
    + (IF nes2 THEN lower_nibble(HeaderByte(nesheader, 8)) * 256 ELSE 0)

\* decode_header, mirror_pattern
header_mirror_pattern(b6) ==
    IF bit_high(b6, 3) THEN MIRROR_FOUR_SCREEN
    ELSE IF bit_low(b6, 0) THEN MIRROR_HORIZONTAL
    ELSE MIRROR_VERTICAL

\* decode_header with nes2 known.  The fields that stay None in the iNES
\* format are kept as 0, which get_cart's tests treat alike.
decode_fields(nesheader, py_compatibility_mode, nes2) ==
    [py_compatibility_mode |-> py_compatibility_mode,
     prg_rom_bytes |-> HeaderByte(nesheader, 4) * 16384,
     chr_rom_bytes |-> HeaderByte(nesheader, 5) * 8192,
     mirror_pattern |-> header_mirror_pattern(HeaderByte(nesheader, 6)),
     has_persistent |-> bit_high(HeaderByte(nesheader, 6), 1),
     has_trainer |-> bit_high(HeaderByte(nesheader, 6), 2),
     mirror_ignore |-> bit_high(HeaderByte(nesheader, 6), 3),
     mapper_id |-> header_mapper_id(nesheader, nes2),
     nes2 |-> nes2,
     submapper_id |-> IF nes2 THEN upper_nibble(HeaderByte(nesheader, 8)) ELSE 0,
     prg_ram_bytes |->
         IF nes2 THEN 64 * 2 ^ lower_nibble(HeaderByte(nesheader, 10))
         ELSE (IF HeaderByte(nesheader, 8) > 1 THEN HeaderByte(nesheader, 8) ELSE 1)
              * 8192,
     prg_nvram_bytes |->
         IF nes2 THEN 64 * 2 ^ upper_nibble(HeaderByte(nesheader, 10)) ELSE 0,
     chr_ram_bytes |->
         IF nes2 THEN 64 * 2 ^ lower_nibble(HeaderByte(nesheader, 11)) ELSE 0,
     chr_nvram_bytes |->
         IF nes2 THEN 64 * 2 ^ upper_nibble(HeaderByte(nesheader, 11)) ELSE 0,
     prg_rom_data |-> PowerUpCart.prg_rom,
     chr_rom_data |-> PowerUpCart.chr_mem]

\* ROM(filename, py_compatibility_mode): the ROM object, or None when
\* decode_header raises NotImplementedError
decode_header(nesheader, py_compatibility_mode) ==
    IF /\ BitAnd(HeaderByte(nesheader, 7), 12) > 0
       /\ \/ lower_nibble(HeaderByte(nesheader, 9)) = 15
          \/ upper_nibble(HeaderByte(nesheader, 9)) = 15
    THEN None
    ELSE decode_fields(nesheader, py_compatibility_mode,
                       BitAnd(HeaderByte(nesheader, 7), 12) > 0)

\* the cartridge object of class class made from the ROM r
NewCart(r, class) ==
    [class |-> class,
     chr_mem |-> r.chr_rom_data, prg_rom |-> r.prg_rom_data, ram |-> EmptyBytes,
     prg_start_addr |-> PRG_ROM_START, prg_rom_len |-> r.prg_rom_bytes,
     nametable_mirror_pattern |-> r.mirror_pattern]

\* ROM.get_cart: whether it raised and the cartridge returned.  In
\* py_compatibility_mode a mapper other than 0 is printed and falls through
\* to the second chain; the last else prints and the function ends, which
\* returns None.
get_cart(r) ==
    IF r.mapper_id = 0
    THEN [raised |-> FALSE,
          cart |-> NewCart(r, IF r.py_compatibility_mode THEN "pyNESCart0"
                              ELSE "NESCart0")]
    ELSE IF r.mapper_id = 1
    THEN IF r.chr_ram_bytes # 0 /\ r.chr_ram_bytes # r.chr_rom_bytes
         THEN [raised |-> TRUE, cart |-> None]
         ELSE [raised |-> FALSE, cart |-> NewCart(r, "NESCart1")]
    ELSE IF r.mapper_id = 2
    THEN [raised |-> FALSE, cart |-> NewCart(r, "NESCart2")]
    ELSE IF r.mapper_id = 4
    THEN [raised |-> FALSE, cart |-> NewCart(r, "NESCart4")]
    ELSE [raised |-> FALSE, cart |-> None]

\* NES.__init__ once get_cart returned c: NESPPU builds NESVRAM, which reads
\* cart.nametable_mirror_pattern and raises AttributeError on None
NES_with_cart(c) ==
    IF c.raised \/ c.cart = None
    THEN [PowerUp EXCEPT !.cpu = None, !.ppu = None, !.memory = None,
                         !.interrupt_listener = None, !.cart = None,
                         !.halted = TRUE]
    ELSE [PowerUp EXCEPT !.cart = c.cart]

\* NES(rom_file): ROM(rom_file, py_compatibility_mode=True), get_cart and the
\* rest of the constructor
NES_init(nesheader) ==
    IF decode_header(nesheader, TRUE) = None
    THEN NES_with_cart([raised |-> TRUE, cart |-> None])
    ELSE NES_with_cart(get_cart(decode_header(nesheader, TRUE)))

\* header bytes 6, 7, 8 and 11 of the files used: mappers 0 to 4, 15, 16, 20,
\* 256 and 260, the four values of bits 2-3 of byte 7, the three mirror
\* patterns
Byte6Samples == {0, 1, 8, 16, 32, 48, 64, 240}

Byte7Samples == {0, 4, 8, 12, 16}

Byte8Samples == {0, 1, 2}

Byte11Samples == {0, 7}

\* 'N', 'E', 'S', 0x1A
NesMagic == <<78, 69, 83, 26>>

\* the first four bytes of the files used: the .nes magic, a wrong last byte
\* and four zero bytes
MagicSamples == {NesMagic, <<78, 69, 83, 0>>, <<0, 0, 0, 0>>}

\* two 16 kB banks of PRG ROM and one 8 kB bank of CHR ROM
Headers ==
    {magic \o <<2, 1, b6, b7, b8, 0, 0, b11, 0, 0, 0, 0>> :
         magic \in MagicSamples,
         b6 \in Byte6Samples, b7 \in Byte7Samples, b8 \in Byte8Samples,
         b11 \in Byte11Samples}

\* nothing is built yet
InitRom ==
    /\ cpu = None
    /\ ppu = None
    /\ memory = None
    /\ interrupt_listener = None
    /\ cart = None
    /\ rom = None
    /\ halted = FALSE
    /\ last = NoLast
    /\ ops = 0

\* rom = ROM(filename, py_compatibility_mode=...); last.nesheader is the
\* header of the file
LoadRom(nesheader, py_compatibility_mode) ==
    /\ last.kind = "none"
    /\ rom' = decode_header(nesheader, py_compatibility_mode)
    /\ halted' = (decode_header(nesheader, py_compatibility_mode) = None)
    /\ last' = [NoLast EXCEPT !.kind = "ROM"] @@ [nesheader |-> nesheader]
    /\ UNCHANGED <<cpu, ppu, memory, interrupt_listener, cart, ops>>

\* cart = rom.get_cart(...); last.v is the mapper id
GetCart ==
    /\ last.kind = "ROM"
    /\ ~halted
    /\ cart' = get_cart(rom).cart
    /\ halted' = get_cart(rom).raised
    /\ last' = [NoLast EXCEPT !.kind = "get_cart", !.v = rom.mapper_id]
    /\ UNCHANGED <<cpu, ppu, memory, interrupt_listener, rom, ops>>

\* nes = NES(rom_file); the ROM is a local of the constructor; last.v is the
\* mapper id of the file
NesInit(nesheader) ==
    /\ last.kind = "none"
    /\ \E w \in {NES_init(nesheader)} :
           /\ cpu' = w.cpu
           /\ ppu' = w.ppu
           /\ memory' = w.memory
           /\ interrupt_listener' = w.interrupt_listener
           /\ cart' = w.cart
           /\ halted' = w.halted
    /\ rom' = None
    /\ last' = [NoLast EXCEPT !.kind = "NES",
                              !.v = header_mapper_id(nesheader,
                                        BitAnd(HeaderByte(nesheader, 7), 12) > 0)]
    /\ UNCHANGED ops

NextRom ==
    \/ \E nesheader \in Headers, py \in BOOLEAN : LoadRom(nesheader, py)
    \/ GetCart
    \/ \E nesheader \in Headers : NesInit(nesheader)

SpecRom == InitRom /\ [][NextRom]_vars

-----------------------------------------------------------------------------
(* The PPU run in batches (SpecBatch): run_cycles(n) for small n from just  *)
(* before the vertical blank and from just before the end of the frame,     *)
(* with the vblank NMI off or on                                            *)

\* PPU cycles from power-up to the starts: (240, 339) and (261, 336)
BatchStarts == {241 * PIXELS_PER_LINE - 2, FrameBody}

\* PPUCTRL written at the start: the vblank NMI off, on
BatchCtrls == {0, 128}

BatchSizes == 1 .. MaxBatch

InitBatch ==
    /\ \E k \in BatchStarts, c \in BatchCtrls :
         \E w \in {write_register(run_cycles(PowerUp, k), PPU_CTRL, c)} :
             /\ cpu = w.cpu
             /\ ppu = w.ppu
             /\ memory = w.memory
             /\ interrupt_listener = w.interrupt_listener
             /\ cart = w.cart
             /\ halted = w.halted
    /\ rom = None
    /\ last = NoLast
    /\ ops = 0

\* ppu.run_cycles(n); last.v is n
Batch(n) ==
    /\ ~halted
    /\ ops < MaxBatchOps
    /\ \E w1 \in {run_cycles(W, n)} :
           /\ Commit(w1)
           /\ last' = Did("run_cycles", 0, NoInstr, n, w1)
    /\ ops' = ops + 1

NextBatch == \E n \in BatchSizes : Batch(n)

SpecBatch == InitBatch /\ [][NextBatch]_vars

-----------------------------------------------------------------------------
(* The VRAM address (SpecAddr): PPUADDR writes and PPUDATA reads and writes *)
(* on the PPU register file                                                 *)

\* bytes written to PPUADDR: $00, $3F, $40 and $FF
AddrBytes == {0, 63, 64, 255}

\* PPUCTRL written by the program: the VRAM increment 1, 32
AddrCtrls == {0, 4}

NextAddr ==
    \/ \E value \in AddrBytes : PpuWrite(PPU_ADDR, value)
    \/ \E value \in AddrCtrls : PpuWrite(PPU_CTRL, value)
    \/ PpuWrite(PPU_DATA, 9)
    \/ PpuRead(PPU_DATA)

SpecAddr == InitReg /\ [][NextAddr]_vars

-----------------------------------------------------------------------------
(* The nametables (SpecMirror): NESVRAM.read and NESVRAM.write on a system  *)
(* built from a mapper-0 file with each mirror pattern                      *)

\* header byte 6: horizontal, vertical, four-screen
MirrorBytes == {0, 1, 8}

MirrorHeaders ==
    {NesMagic \o <<2, 1, b6, 0, 0, 0, 0, 0, 0, 0, 0, 0>> : b6 \in MirrorBytes}

\* the first and last address of each nametable and of the mirror
\* $3000-$3EFF
NametableAddresses ==
    {8192, 9215, 9216, 10239, 10240, 11263, 11264, 12287, 12288, 16127}

InitMirror ==
    /\ \E nesheader \in MirrorHeaders :
         \E w \in {NES_init(nesheader)} :
             /\ cpu = w.cpu
             /\ ppu = w.ppu
             /\ memory = w.memory
             /\ interrupt_listener = w.interrupt_listener
             /\ cart = w.cart
             /\ halted = w.halted
    /\ rom = None
    /\ last = NoLast
    /\ ops = 0

\* ppu.vram.read(address); a raised IndexError halts
VramRead(address) ==
    /\ ~halted
    /\ ops < MaxVramOps
    /\ \E w1 \in {IF vram_ok(W, address) THEN W
                  ELSE [W EXCEPT !.halted = TRUE]} :
           /\ Commit(w1)
           /\ last' = Did("vram_read", 0, [name |-> "none", arg |-> address],
                          vram_read(W, address), w1)
    /\ ops' = ops + 1

\* ppu.vram.write(address, value)
VramWrite(address, value) ==
    /\ ~halted
    /\ ops < MaxVramOps
    /\ \E w1 \in {vram_write(W, address, value)} :
           /\ Commit(w1)
           /\ last' = Did("vram_write", 0, [name |-> "none", arg |-> address],
                          value, w1)
    /\ ops' = ops + 1

NextMirror ==
    \/ \E address \in NametableAddresses : VramRead(address)
    \/ \E address \in NametableAddresses : VramWrite(address, 7)

SpecMirror == InitMirror /\ [][NextMirror]_vars

-----------------------------------------------------------------------------
(* Sprite evaluation from any OAMADDR (SpecOam): the first two lines of a   *)
(* frame with OAMADDR left at an address that is or is not a multiple of 4  *)

\* 63 sprites with every byte $F0 and sprite 63 at <<240, 0, 0, 0>>; OAM as
\* it is at power-up
OamTables ==
    {[n \in 1 .. 64 |->
         IF n = 64 THEN HiddenSprite ELSE <<240, 240, 240, 240>>],
     [n \in 1 .. 64 |-> <<0, 0, 0, 0>>]}

\* OAMADDR as the program leaves it
OamAddrs == {0, 1, 2, 3}

\* PPUMASK: background and sprites, without and with the eight pixels on the
\* left
OamMasks == {24, 30}

InitOam ==
    /\ \E table \in OamTables, oam_addr \in OamAddrs, mask \in OamMasks :
         \E w \in {set_up(PowerUp, table, oam_addr, mask)} :
             /\ cpu = w.cpu
             /\ ppu = w.ppu
             /\ memory = w.memory
             /\ interrupt_listener = w.interrupt_listener
             /\ cart = w.cart
             /\ halted = w.halted
    /\ rom = None
    /\ last = NoLast
    /\ ops = 0

NextOam == RunCycle

SpecOam == InitOam /\ [][NextOam]_vars

-----------------------------------------------------------------------------
(* The CPU at the edges of the address space (SpecPc): instructions run  *)
(* with PC at the top and at the bottom of the 64 kB, and a return       *)
(* address of $FFFF on the stack.                                        *)

\* where the instruction is: the bottom, the middle and the top of memory
EdgePcSamples == {0, 32768, 65533, 65535}

\* the state after a program has pushed the return address $FFFF
InitPc ==
    /\ \E pc \in EdgePcSamples, f \in FlagSamples :
         \E w \in {push_stack(push_stack(
                     [PowerUp EXCEPT !.cart = CartWithHandlers,
                        !.cpu = [PC |-> pc, SP |-> 255, A |-> 0, X |-> 0, Y |-> 0,
                                 N |-> f[1], V |-> f[2], D |-> f[3], I |-> f[4],
                                 Z |-> f[5], C |-> f[6], cycles_since_reset |-> 7,
                                 started |-> TRUE,
                                 stack_underflow_causes_exception |-> FALSE]],
                     255), 255)} :
            /\ cpu = w.cpu
            /\ cart = w.cart
            /\ ppu = w.ppu
            /\ memory = w.memory
            /\ interrupt_listener = w.interrupt_listener
    /\ halted = FALSE
    /\ rom = None
    /\ last = NoLast
    /\ ops = 0

\* the instructions that move PC, each with the operand data after its opcode
PcInstructions ==
    {[name |-> "nop", arg |-> 0], [name |-> "rts", arg |-> 0],
     [name |-> "rti", arg |-> 0], [name |-> "brk", arg |-> 0],
     [name |-> "jmp_abs", arg |-> 65535], [name |-> "jsr", arg |-> 65533]}
        \cup {[name |-> n, arg |-> d] : n \in {"bne", "bcc"}, d \in {16, 240}}

\* the opcode and its operand bytes are read at PC .. PC + size_bytes - 1
FetchInMemory(instr) ==
    /\ cpu.PC >= 0
    /\ cpu.PC + InstructionTable[instr.name].size_bytes - 1 <= 65535

\* cpu.run_next_instr() with the instruction instr at PC
PcExec(instr) ==
    /\ ~halted
    /\ ops < MaxPcOps
    /\ \E w1 \in {run_next_instr(W, instr.name, instr.arg)} :
           /\ Commit(w1)
           /\ last' = Did("run_next_instr", returned_cycles(W, instr.name, instr.arg),
                          instr, 0, w1)
    /\ ops' = ops + 1

\* cpu.trigger_nmi()
PcNmi ==
    /\ ~halted
    /\ ops < MaxPcOps
    /\ \E w1 \in {trigger_nmi(W)} :
           /\ Commit(w1)
           /\ last' = Did("trigger_nmi", INTERRUPT_REQUEST_CYCLES, NoInstr, 0, w1)
    /\ ops' = ops + 1

NextPc ==
    \/ PcNmi
    \/ \E instr \in PcInstructions : FetchInMemory(instr) /\ PcExec(instr)

SpecPc == InitPc /\ [][NextPc]_vars

-----------------------------------------------------------------------------
(* The vertical blank, one PPU cycle at a time (SpecVbl): single cycles  *)
(* and CPU-cycle batches around the start of the frame, the start of     *)
(* line 241, the start of line 261 and the end of the frame, longer runs *)
(* in between, and reads of PPUSTATUS anywhere.                          *)

\* cycles_since_frame at (0, 0), (240, 340), (260, 340) and (261, 336)
VblStarts == {0, 241 * PIXELS_PER_LINE - 1, 261 * PIXELS_PER_LINE - 1, FrameBody}

\* cycles in one call of run_cycles: one PPU cycle, one CPU cycle
VblSteps == {1, 3}

\* the cycles run one by one: VblTicks from each start, and the frame's end
InVblWindow(c) ==
    \/ c >= FrameBody
    \/ \E s \in VblStarts : s <= c /\ c < s + VblTicks

\* the next start after cycle c of the frame
NextStart(c) ==
    CHOOSE s \in VblStarts : s > c /\ \A t \in VblStarts : t > c => s <= t

InitVbl ==
    /\ cpu = PowerUp.cpu
    /\ ppu = PowerUp.ppu
    /\ memory = PowerUp.memory
    /\ interrupt_listener = PowerUp.interrupt_listener
    /\ cart = PowerUp.cart
    /\ halted = FALSE
    /\ rom = None
    /\ last = NoLast
    /\ ops = 0

\* ppu.run_cycles(n) inside a window
VblTick(n) ==
    /\ ~halted
    /\ ppu.frames_since_reset < MaxVblFrames
    /\ InVblWindow(ppu.cycles_since_frame)
    /\ \E w1 \in {run_cycles(W, n)} :
           /\ Commit(w1)
           /\ last' = Did("tick", 0, NoInstr, n, w1)
    /\ UNCHANGED ops

\* ppu.run_cycles(n) up to the next window
VblRun ==
    /\ ~halted
    /\ ppu.frames_since_reset < MaxVblFrames
    /\ ~InVblWindow(ppu.cycles_since_frame)
    /\ \E n \in {NextStart(ppu.cycles_since_frame) - ppu.cycles_since_frame} :
         \E w1 \in {run_cycles(W, n)} :
           /\ Commit(w1)
           /\ last' = Did("run_cycles", 0, NoInstr, n, w1)
    /\ UNCHANGED ops

\* ppu.read_register(PPU_STATUS)
VblRead ==
    /\ ~halted
    /\ ops < MaxVblReads
    /\ \E r \in {read_register(W, PPU_STATUS)} :
           /\ Commit(r.w)
           /\ last' = Did("read", 0, [name |-> "none", arg |-> PPU_STATUS], r.v, r.w)
    /\ ops' = ops + 1

NextVbl ==
    \/ \E n \in VblSteps : VblTick(n)
    \/ VblRun
    \/ VblRead

SpecVbl == InitVbl /\ [][NextVbl]_vars

-----------------------------------------------------------------------------
(* Properties of the runner (Spec)                                          *)

IsStep(kind) == kind \in {"nmi", "dma", "instr"}

CpuCyclesAdded == cpu'.cycles_since_reset - cpu.cycles_since_reset

PpuCyclesAdded == ppu'.cycles_since_reset - ppu.cycles_since_reset

\* C1: between steps the PPU cycle counter is three times the CPU cycles
\* counted since the 7 of the reset, and a step that adds n CPU cycles runs
\* the PPU for 3n cycles.
C1_PpuRunsThreeTimesCpu ==
    /\ [](~halted => ppu.cycles_since_reset = 3 * (cpu.cycles_since_reset - 7))
    /\ [][IsStep(last'.kind) /\ ~halted' =>
            /\ CpuCyclesAdded = last'.cycles
            /\ PpuCyclesAdded = 3 * CpuCyclesAdded]_vars

C1_Witness ==
    /\ last.kind = "dma"
    /\ last.cycles = 514
    /\ ppu.cycles_since_reset = 3 * (cpu.cycles_since_reset - 7)

\* the CPU but for its cycle counter
Registers(c) == [c EXCEPT !.cycles_since_reset = 0]

\* C2: a step does exactly one thing: it services a pending NMI, else it
\* pays a pending DMA stall, else it executes one instruction.  With both
\* pending the NMI is serviced, the DMA flag stays set, and the next step is
\* not an instruction.
C2_StepPriority ==
    [][IsStep(last'.kind) =>
        /\ last'.kind = (IF interrupt_listener.nmi THEN "nmi"
                         ELSE IF interrupt_listener.oam_dma_pause THEN "dma"
                         ELSE "instr")
        /\ last'.kind = "nmi" =>
             /\ CpuCyclesAdded = INTERRUPT_REQUEST_CYCLES
             /\ cpu'.SP = (cpu.SP - 3) % 256
             /\ last'.name = "none"
             /\ interrupt_listener'.oam_dma_pause = interrupt_listener.oam_dma_pause
        /\ last'.kind = "dma" =>
             /\ CpuCyclesAdded \in {513, 514}
             /\ Registers(cpu') = Registers(cpu)
             /\ last'.name = "none"
        /\ last'.kind = "instr" =>
             /\ CpuCyclesAdded \in {2, 3, 4}
             /\ last'.name # "none"
             /\ cpu'.SP = cpu.SP
        /\ (last.kind = "nmi" /\ last.dma_before) =>
             /\ interrupt_listener.oam_dma_pause
             /\ last'.kind # "instr"]_vars

C2_Witness ==
    /\ last.kind = "nmi"
    /\ last.dma_before
    /\ interrupt_listener.oam_dma_pause
    /\ ~interrupt_listener.nmi

\* C3: a write to $4014 sets the DMA flag; while the flag is set no
\* instruction executes; the stall step adds 513 cycles on an even counter
\* and 514 on an odd one, leaves every register, flag and the PC alone, and
\* clears the flag.
C3_DmaStall ==
    [][IsStep(last'.kind) =>
        /\ (last'.kind = "instr" /\ last'.name \in {"sta_abs", "stx_abs"}
            /\ last'.arg = OAM_DMA) => interrupt_listener'.oam_dma_pause
        /\ interrupt_listener.oam_dma_pause => last'.kind # "instr"
        /\ (interrupt_listener.oam_dma_pause /\ ~interrupt_listener.nmi) =>
             last'.kind = "dma"
        /\ last'.kind = "dma" =>
             /\ interrupt_listener.oam_dma_pause
             /\ CpuCyclesAdded = (IF cpu.cycles_since_reset % 2 = 0 THEN 513 ELSE 514)
             /\ Registers(cpu') = Registers(cpu)
             /\ ~interrupt_listener'.oam_dma_pause]_vars

C3_Witness ==
    /\ last.kind = "dma"
    /\ last.cycles = 514
    /\ ~interrupt_listener.oam_dma_pause

\* the index of the PPU's position in its frame (rendering is disabled, so no
\* frame is a pixel short)
TickIndex(p) == p.line * PIXELS_PER_LINE + p.pixel

VblankTick == 241 * PIXELS_PER_LINE + 1

\* the step about to be taken runs the tick at (241, 1)
CoversVblankTick ==
    /\ TickIndex(ppu) <= VblankTick
    /\ VblankTick < TickIndex(ppu) + PpuCyclesAdded

\* the tick made at position (line, pixel) with PPUCTRL = ppu_ctrl raises NMI
TickRaisesNmi(ppu_ctrl, line, pixel) ==
    TickPhase([W EXCEPT !.ppu.ppu_ctrl = ppu_ctrl,
                        !.ppu.line = line,
                        !.ppu.pixel = pixel,
                        !.interrupt_listener.nmi = FALSE]).interrupt_listener.nmi

\* C4 as stated: the PPU raises at most one NMI in a frame.
C4_OneNmiPerFrame == last.frame_nmis <= 1

\* C4: the tick at (241, 1) sets in_vblank and raises NMI exactly when
\* PPUCTRL bit 7 is set; no other tick raises NMI, so the ticks of one frame
\* raise at most one NMI.  (PPUCTRL writes during the vertical blank can
\* raise more.)
C4_TickNmi ==
    /\ [](last.kind = "none" =>
            \A ppu_ctrl \in {0, 4, 128, 132} :
                \A line \in 0..261 : \A pixel \in 0..(PIXELS_PER_LINE - 1) :
                    TickRaisesNmi(ppu_ctrl, line, pixel)
                      <=> (line = 241 /\ pixel = 1 /\ ppu_ctrl >= 128))
    /\ [][IsStep(last'.kind) =>
           /\ CoversVblankTick =>
                /\ ppu'.in_vblank
                /\ last'.vbl_ticks = 1
                /\ last'.tick_nmi = (IF BitAnd(ppu'.ppu_ctrl, VBLANK_MASK) > 0 THEN 1 ELSE 0)
                /\ last'.tick_nmi = 1 => interrupt_listener'.nmi
           /\ ~CoversVblankTick =>
                /\ last'.tick_nmi = 0
                /\ (interrupt_listener'.nmi /\ last'.write_nmi = 0) =>
                     (interrupt_listener.nmi /\ last'.kind # "nmi")
           /\ last'.frame_tick_nmis <= 1]_vars

C4_Witness ==
    /\ last.tick_nmi = 1
    /\ last.vbl_ticks = 1
    /\ ppu.in_vblank
    /\ interrupt_listener.nmi

\* C8 as stated: a PPUCTRL write made before 29,658 CPU cycles have elapsed
\* leaves ppu_ctrl unchanged, and one made after them takes effect.
C8_CtrlWarmUpInCpuCycles ==
    [][(last'.kind = "instr" /\ Access("instr", last'.name, last'.arg) = <<"w", PPU_CTRL>>) =>
        IF cpu.cycles_since_reset < PPUCTRL_WARMUP_CYCLES
        THEN ppu'.ppu_ctrl = ppu.ppu_ctrl
        ELSE ppu'.ppu_ctrl = (IF last'.name = "sta_abs" THEN cpu.A ELSE cpu.X)]_vars

-----------------------------------------------------------------------------
(* Properties of the NMI latch (SpecNmi)                                    *)

\* the address in the NMI vector of the cartridge
NmiHandler == _read_word(W, NMI_VECTOR_ADDR).v

\* C5: a set NMI latch stays set until a step services it.  A PPUSTATUS
\* read clears in_vblank and leaves the latch; only the NMI step clears it;
\* the first step after it is raised services it, once.
C5_NmiLatch ==
    [][/\ (interrupt_listener.nmi /\ last'.kind # "nmi") => interrupt_listener'.nmi
       /\ (last'.kind = "read" /\ last'.arg = PPU_STATUS) =>
            /\ ~ppu'.in_vblank
            /\ interrupt_listener'.nmi = interrupt_listener.nmi
       /\ (interrupt_listener.nmi /\ ~interrupt_listener'.nmi) => last'.kind = "nmi"
       /\ (interrupt_listener.nmi /\ IsStep(last'.kind)) =>
            /\ last'.kind = "nmi"
            /\ cpu'.PC = NmiHandler
            /\ cpu'.SP = (cpu.SP - 3) % 256
            /\ ~interrupt_listener'.nmi
       /\ last'.kind = "nmi" => interrupt_listener.nmi]_vars

C5_Witness ==
    /\ last.kind = "read"
    /\ last.arg = PPU_STATUS
    /\ last.nmi_before
    /\ interrupt_listener.nmi
    /\ ~ppu.in_vblank

-----------------------------------------------------------------------------
(* Properties of the memory map (SpecMem)                                   *)

\* 256 writes through OAMDATA of the bytes at address, address + 1, ...
RECURSIVE OamDataWrites(_, _, _)
OamDataWrites(w, address, n) ==
    IF n = 0 THEN w
    ELSE IF n = 1 THEN write_register(w, OAM_DATA, mem_read(w, address).v)
    ELSE LET h == OamDataWrites(w, address, n \div 2)
         IN  IF h.halted THEN h
             ELSE OamDataWrites(h, address + (n \div 2), n - (n \div 2))

\* C6 as stated: a DMA from page P with OAMADDR = s leaves in OAM the page,
\* placed from s on and wrapping at 256, as 256 writes through OAMDATA do.
C6_DmaWraps ==
    [][(last'.kind = "bus_write" /\ last'.arg = OAM_DMA) =>
        /\ \A i \in 0..(OAM_SIZE_BYTES - 1) :
             Get(ppu'.oam, (ppu.oam_addr + i) % OAM_SIZE_BYTES)
               = mem_read(W, last'.v * 256 + i).v
        /\ ppu'.oam = OamDataWrites(W, last'.v * 256, OAM_SIZE_BYTES).ppu.oam]_vars

\* C7 as stated: a read or write at an address below $2000 accesses the RAM
\* cell at the address mod $0800 and reaches no PPU register.
C7_RamMirrors ==
    [][(last'.kind \in {"bus_read", "bus_write"} /\ last'.arg < 8192) =>
        /\ ppu' = ppu
        /\ interrupt_listener' = interrupt_listener
        /\ last'.kind = "bus_read" =>
             /\ last'.v = Get(memory.ram, last'.arg % 2048)
             /\ memory' = memory
        /\ last'.kind = "bus_write" =>
             memory'.ram = Put(memory.ram, last'.arg % 2048, last'.v)]_vars

-----------------------------------------------------------------------------
(* Properties of the PPU registers (SpecReg)                                *)

\* C9: the write toggle shared by PPUSCROLL and PPUADDR is the parity of the
\* writes to the two registers since the last PPUSTATUS read (or power-up);
\* a PPUSTATUS read makes it 0, and no other access changes it.
C9_WriteToggle ==
    /\ [](ppu.ppu_byte_latch = last.since_status % 2)
    /\ [][/\ (last'.kind = "read" /\ last'.arg = PPU_STATUS) => ppu'.ppu_byte_latch = 0
          /\ (last'.kind = "write" /\ last'.arg \in {PPU_SCROLL, PPU_ADDR}) =>
               ppu'.ppu_byte_latch = 1 - ppu.ppu_byte_latch
          /\ ~(\/ last'.kind = "read" /\ last'.arg = PPU_STATUS
               \/ last'.kind = "write" /\ last'.arg \in {PPU_SCROLL, PPU_ADDR}) =>
               ppu'.ppu_byte_latch = ppu.ppu_byte_latch]_vars

C9_Witness ==
    /\ last.kind = "write"
    /\ last.arg = PPU_SCROLL
    /\ last.since_status = 3
    /\ ppu.ppu_byte_latch = 1

\* the byte of video memory at an address below $4000, $3000-$3EFF being
\* the mirror of $2000-$2EFF
VramByte(address) ==
    vram_read(W, IF 12288 <= address /\ address < PALETTE_START
                 THEN address - 4096 ELSE address)

\* C10 as stated: a PPUDATA read with the address v below $3F00 returns the
\* buffer and loads the buffer with VRAM[v]; with v in $3F00-$3FFF it returns
\* the palette byte and loads the buffer with VRAM[v - $1000]; either way
\* the address advances by 1, or by 32 when PPUCTRL bit 2 is set.
C10_DataRead ==
    [][(last'.kind = "read" /\ last'.arg = PPU_DATA /\ ppu.ppu_addr < 16384) =>
        /\ ~halted'
        /\ ppu.ppu_addr < PALETTE_START =>
             /\ last'.v = ppu.ppu_data_buffer
             /\ ppu'.ppu_data_buffer = VramByte(ppu.ppu_addr)
        /\ ppu.ppu_addr >= PALETTE_START =>
             /\ last'.v = VramByte(ppu.ppu_addr)
             /\ ppu'.ppu_data_buffer = VramByte(ppu.ppu_addr - 4096)
        /\ ppu'.ppu_addr = ppu.ppu_addr
                           + (IF BitAnd(ppu.ppu_ctrl, VRAM_INCREMENT_MASK) > 0
                              THEN 32 ELSE 1)]_vars

-----------------------------------------------------------------------------
(* Properties of the CPU reset (SpecCpu)                                    *)

\* the little-endian word the CPU bus holds at address
WordAt(address) ==
    mem_read(W, address).v + 256 * mem_read(W, address + 1).v

\* C20: after reset() PC is the little-endian word at $FFFC/$FFFD, SP is
\* $FD, I is set, A, X and Y are 0, N, V, D, Z and C are clear (the status
\* byte is $24) and the cycle count is 7.
C20_Reset ==
    last.kind = "reset" =>
        /\ cpu.PC = WordAt(RESET_VECTOR_ADDR)
        /\ cpu.SP = 253
        /\ cpu.I
        /\ cpu.A = 0 /\ cpu.X = 0 /\ cpu.Y = 0
        /\ ~cpu.N /\ ~cpu.V /\ ~cpu.D /\ ~cpu.Z /\ ~cpu.C
        /\ _status_to_byte(cpu, FALSE) = 36
        /\ cpu.cycles_since_reset = 7

C20_Witness ==
    /\ last.kind = "reset"
    /\ last.v = 255
    /\ cpu.PC = 37428
    /\ cpu.A = 0

-----------------------------------------------------------------------------
(* Properties of the palette (SpecPal)                                      *)

\* the PPUDATA access just made was at $3F00+4k or at $3F10+4k
AtEntry(k) ==
    /\ last'.kind \in {"read", "write"}
    /\ last'.arg = PPU_DATA
    /\ ppu.ppu_addr \in {BackgroundEntry(k), SpriteEntry(k)}

\* C17: for k in 0..3, $3F10+4k and $3F00+4k are one palette RAM cell: a
\* byte written through PPUDATA at either address is stored in the cell
\* 4k, a PPUDATA read at either address returns that cell, and the two
\* addresses read the same byte in every state.
C17_PaletteMirror ==
    /\ [](\A k \in PaletteEntries :
            vram_read(W, SpriteEntry(k)) = vram_read(W, BackgroundEntry(k)))
    /\ [][\A k \in PaletteEntries : AtEntry(k) =>
            /\ last'.kind = "write" =>
                 /\ Get(ppu'.palette_ram, 4 * k) = last'.v
                 /\ vram_read(W', SpriteEntry(k)) = last'.v
                 /\ vram_read(W', BackgroundEntry(k)) = last'.v
            /\ last'.kind = "read" => last'.v = Get(ppu.palette_ram, 4 * k)]_vars

\* 9 was written at $3F1C and is read back at $3F0C
C17_Witness ==
    /\ ops = 4
    /\ last.kind = "read"
    /\ last.arg = PPU_DATA
    /\ last.v = 9
    /\ ppu.ppu_addr = BackgroundEntry(3) + 1
    /\ ppu.palette_ram = (12 :> 9)

-----------------------------------------------------------------------------
(* Properties of the controller (SpecPad)                                   *)

ReadsController1 == last'.kind = "bus_read" /\ last'.arg = CONTROLLER1

\* C18: once the strobe has been written 1 and then 0, the k-th read of the
\* controller returns button k of A, B, select, start, up, down, left, right
\* for k in 1..8 and 1 for every later read, until the strobe is raised
\* again; the read position never exceeds 8.
C18_ShiftOut ==
    /\ [](memory.controller1.current_bit <= NUM_BUTTONS)
    /\ [][(ReadsController1 /\ last.lowered) =>
            last'.v = port_byte(IF last.reads + 1 <= NUM_BUTTONS
                                THEN memory.controller1.is_pressed[last.reads + 1]
                                ELSE 1)]_vars

\* C19: while the strobe is 1 a read returns button A and leaves the read
\* position where it was.
C19_StrobeHigh ==
    [][(ReadsController1 /\ memory.controller1.strobe # 0) =>
        /\ last'.v = port_byte(memory.controller1.is_pressed[1])
        /\ memory'.controller1.current_bit = memory.controller1.current_bit]_vars

------------------------------------------------------------------------------
(* Properties of the picture (SpecRender)                                   *)

\* the step is one run_cycles(1), and the tick finds the PPU at (line, pixel)
IsTick == last'.kind = "tick"

VisibleTick ==
    IsTick /\ ppu.line <= 239 /\ 1 <= ppu.pixel /\ ppu.pixel <= 256

\* PPUMASK bit 3 (background) and bit 4 (sprites)
BackgroundOn == BitAnd(ppu.ppu_mask, 8) # 0

SpritesOn == BitAnd(ppu.ppu_mask, 16) # 0

\* PPUMASK bits 1 and 2 clear hide the background, the sprites, at x = 0..7
BackgroundClipped == ppu.pixel - 1 < 8 /\ BitAnd(ppu.ppu_mask, 2) = 0

SpritesClipped == ppu.pixel - 1 < 8 /\ BitAnd(ppu.ppu_mask, 4) = 0

\* the colour of the palette entry at $3F00
UniversalBackground == rgb_palette[BitAnd(vram_read(W, 16128), 63) + 1]

\* the latches as the tick draws from them: a tick at the first pixel of a
\* tile moves them on before it draws
AtPixel ==
    IF (ppu.pixel - 1) % 8 = 0 /\ ppu.pixel > 1
    THEN next_tile(W, ppu.line, ppu.col + 1)
    ELSE W

\* the background pattern is opaque at the pixel
BkgPatternOpaque ==
    LET px   == ((ppu.pixel - 1) % 8) + BitAnd(ppu.ppu_scroll[1], 7)
        mask == 2 ^ (15 - px)
    IN  \/ BitAnd(AtPixel.ppu.pattern_lo, mask) > 0
        \/ BitAnd(AtPixel.ppu.pattern_hi, mask) > 0

\* active sprites with an opaque pixel at the position
OpaqueHere == opaque_sprites(ppu, ppu.pixel - 1)

BackgroundSupplies == BackgroundOn /\ ~BackgroundClipped /\ BkgPatternOpaque

SpriteSupplies == SpritesOn /\ ~SpritesClipped /\ OpaqueHere # {}

\* C12: a tick at a visible pixel (line 0..239, x = pixel - 1 in 0..255)
\* with PPUMASK bits 3 and 4 both clear sends the screen that pixel in the
\* universal background colour.
C12_DisabledOutput ==
    [][(VisibleTick /\ ~BackgroundOn /\ ~SpritesOn) =>
          /\ last'.screen_writes = 1
          /\ last'.written = <<ppu.pixel - 1, ppu.line, UniversalBackground>>]_vars

\* C13: with rendering enabled a tick at pixel 1..256 of a visible line
\* writes exactly one pixel, at (pixel - 1, line), and writes the universal
\* background colour when neither the background nor an enabled sprite is
\* opaque there.
C13_OnePixelPerTick ==
    [][(VisibleTick /\ (BackgroundOn \/ SpritesOn)) =>
          /\ last'.screen_writes = 1
          /\ last'.written[1] = ppu.pixel - 1
          /\ last'.written[2] = ppu.line
          /\ (~BackgroundSupplies /\ ~SpriteSupplies) =>
                 last'.written[3] = UniversalBackground]_vars

\* sprite 0 has an opaque pixel at the position
SpriteZeroOpaque == \E i \in OpaqueHere : ppu.active_sprites[i] = 0

\* C14: sprite_zero_hit rises only in a tick at a visible pixel where sprite
\* 0 and the background are both opaque and both enabled, not at x = 0..7
\* with a left-8 bit of PPUMASK clear, not at pixel 256 and not before
\* pixel 2.
C14_SpriteZeroHit ==
    [][(~ppu.sprite_zero_hit /\ ppu'.sprite_zero_hit) =>
          /\ VisibleTick
          /\ BackgroundOn /\ SpritesOn
          /\ SpriteZeroOpaque /\ BkgPatternOpaque
          /\ ~BackgroundClipped /\ ~SpritesClipped
          /\ ppu.pixel # 256
          /\ ppu.pixel >= 2]_vars

\* the OAM addresses of the sprites whose Y range covers the line, in the
\* order of the scan: 64 sprites from the held OAM address on
Covering(line) ==
    SelectSeq([n \in 1 .. 64 |-> (ppu.oam_addr_held + 4 * (n - 1)) % 256],
              LAMBDA a : /\ Get(ppu.oam, a) <= line
                         /\ line < Get(ppu.oam, a)
                                   + (IF BitAnd(ppu.ppu_ctrl, 32) # 0
                                      THEN 16 ELSE 8))

Evaluation ==
    /\ IsTick
    /\ ppu.line <= 239 /\ ppu.pixel = 257
    /\ (BackgroundOn \/ SpritesOn)

\* C16: the tick at pixel 257 of a visible line with rendering enabled
\* leaves in the active-sprite list the first min(8, m) of the m sprites
\* covering the line, in scan order, sets sprite_overflow if m > 8 and
\* leaves it alone otherwise; the list never holds more than 8 sprites.
C16_SpriteEvaluation ==
    /\ [](Len(ppu.active_sprites) <= 8)
    /\ [][Evaluation =>
            LET found == Covering(ppu.line)
                m     == Len(found)
            IN  /\ ppu'.active_sprites
                     = SubSeq(found, 1, IF m < 8 THEN m ELSE 8)
                /\ ppu'.sprite_overflow = (ppu.sprite_overflow \/ m > 8)]_vars

\* nine sprites cover line 0: eight are kept, from sprite 8 round to sprite
\* 6, and the overflow flag is up
C16_Witness ==
    /\ last.kind = "tick"
    /\ ppu.line = 0 /\ ppu.pixel = 258
    /\ ppu.oam_addr_held = 32
    /\ Get(ppu.oam, 3) = 252
    /\ ppu.active_sprites = <<32, 0, 4, 8, 12, 16, 20, 24>>
    /\ ppu.sprite_overflow

------------------------------------------------------------------------------
(* Properties of the PPUSTATUS flags (SpecFlags)                            *)

\* the step is the tick that finds the PPU at (261, 1)
PreRenderClear == last'.kind = "tick" /\ ppu.line = 261 /\ ppu.pixel = 1

\* C15: sprite_zero_hit and sprite_overflow go from set to clear in no
\* register read or write and in no tick but the one at (261, 1), and that
\* tick leaves in_vblank, sprite_zero_hit and sprite_overflow all clear.
C15_FlagsUntilPreRender ==
    /\ [][(\/ ppu.sprite_zero_hit /\ ~ppu'.sprite_zero_hit
           \/ ppu.sprite_overflow /\ ~ppu'.sprite_overflow)
          => PreRenderClear]_vars
    /\ [][PreRenderClear =>
            /\ ~ppu'.in_vblank
            /\ ~ppu'.sprite_zero_hit
            /\ ~ppu'.sprite_overflow]_vars

\* the tick at (261, 1) found both sprite flags still up after a PPUSTATUS
\* read, and took them down
C15_Witness ==
    /\ last.kind = "tick"
    /\ ppu.line = 261 /\ ppu.pixel = 2
    /\ ops > 0
    /\ ~last.vblank_before
    /\ last.hit_before /\ last.overflow_before
    /\ ~ppu.in_vblank /\ ~ppu.sprite_zero_hit /\ ~ppu.sprite_overflow

------------------------------------------------------------------------------
(* Properties of the frame length (SpecFrame)                               *)

\* C11: when run_cycles reports a frame end after an earlier one, the PPU
\* cycles run since that earlier end are 262 x 341 = 89,342, or 89,341 if
\* the frame that ends is odd-numbered and PPUMASK has bit 3 or 4 set; with
\* both bits clear they are 89,342 for every frame.
C11_FrameLength ==
    [][(last'.ended /\ ppu.frames_since_reset >= 1) =>
          last'.frame_length =
              IF ppu.frames_since_reset % 2 = 1 /\ BitAnd(ppu.ppu_mask, 24) # 0
              THEN 262 * 341 - 1
              ELSE 262 * 341]_vars

-----------------------------------------------------------------------------
(* Properties of the interrupts and the stack (SpecInt)                     *)

\* the byte of the stack page at stack pointer sp, after the operation
StackByte(sp) == Get(memory'.ram, 256 + (sp % 256))

\* the status byte of the flags before the operation, with the B bit as given
StatusByte(b) ==
    (IF cpu.N THEN 128 ELSE 0) + (IF cpu.V THEN 64 ELSE 0) + 32
    + (IF b THEN 16 ELSE 0) + (IF cpu.D THEN 8 ELSE 0) + (IF cpu.I THEN 4 ELSE 0)
    + (IF cpu.Z THEN 2 ELSE 0) + (IF cpu.C THEN 1 ELSE 0)

\* the little-endian word of the PRG-ROM at the CPU address
VectorWord(address) ==
    Get(cart.prg_rom, address - 32768) + 256 * Get(cart.prg_rom, address - 32767)

\* C21: trigger_nmi pushes the PC high byte, the PC low byte and then the
\* status byte with bit 4 (B) clear and bit 5 set, lowers SP by 3 modulo 256,
\* sets the I flag, loads PC from the word at $FFFA and adds exactly 7 to the
\* cycle counter.
C21_TriggerNmi ==
    [][last'.kind = "trigger_nmi" =>
          /\ StackByte(cpu.SP) = (cpu.PC \div 256) % 256
          /\ StackByte(cpu.SP - 1) = cpu.PC % 256
          /\ StackByte(cpu.SP - 2) = StatusByte(FALSE)
          /\ cpu'.SP = (cpu.SP - 3) % 256
          /\ cpu'.I
          /\ cpu'.PC = VectorWord(65530)
          /\ cpu'.cycles_since_reset = cpu.cycles_since_reset + 7
          /\ last'.cycles = 7]_vars

\* an NMI taken with the stack pointer at 1, so that the pushes wrap, with
\* the I flag clear before and the handler at $9000
C21_Witness ==
    /\ last.kind = "trigger_nmi"
    /\ ops = 1
    /\ cpu.SP = 254
    /\ cpu.PC = 36864
    /\ Get(memory.ram, 257) = 128
    /\ Get(memory.ram, 256) = 255
    /\ Get(memory.ram, 511) = 169

\* C22: executing BRK pushes PC+1 (PC being the address after the opcode) and
\* then the status byte with bit 4 (B) and bit 5 set, sets the I flag, and
\* loads PC from the word at $FFFE.
C22_Brk ==
    [][(last'.kind = "run_next_instr" /\ last'.name = "brk") =>
          /\ StackByte(cpu.SP) = ((cpu.PC + 2) \div 256) % 256
          /\ StackByte(cpu.SP - 1) = (cpu.PC + 2) % 256
          /\ StackByte(cpu.SP - 2) = StatusByte(TRUE)
          /\ cpu'.I
          /\ cpu'.PC = VectorWord(65534)]_vars

\* the instructions that push one byte and the instructions that pop one
PopsOne == {"pla", "plp"}

PushesOne == {"pha", "php"}

\* the byte a one-byte push writes
Pushed(name) == IF name = "pha" THEN cpu.A ELSE StatusByte(TRUE)

\* the operation changed nothing of the memory but the stack page
OnlyStackPage ==
    /\ \A a \in (DOMAIN memory.ram) \cup (DOMAIN memory'.ram) :
           a \in 256 .. 511 \/ Get(memory'.ram, a) = Get(memory.ram, a)
    /\ cart' = cart
    /\ ppu' = ppu

\* a pop at SP = $FF on a CPU that raises on stack underflow
Underflow == cpu.SP = 255 /\ cpu.stack_underflow_causes_exception

\* the byte read when pla pulled it
PulledByte == cpu'.A

\* C23 as stated: push_stack writes at $0100+SP and then sets SP to
\* (SP - 1) mod 256; pop_stack sets SP to (SP + 1) mod 256 and then reads
\* $0100+SP; so every stack access lies in $0100..$01FF and SP stays in
\* 0..255.
C23_StackWraps ==
    [][last'.kind \in {"trigger_nmi", "run_next_instr"} =>
          /\ cpu'.SP \in 0 .. 255
          /\ OnlyStackPage
          /\ last'.name \in PushesOne =>
                /\ StackByte(cpu.SP) = Pushed(last'.name)
                /\ cpu'.SP = (cpu.SP - 1) % 256
          /\ last'.name \in PopsOne => cpu'.SP = (cpu.SP + 1) % 256
          /\ last'.name = "pla" =>
                PulledByte = Get(memory.ram, 256 + ((cpu.SP + 1) % 256))]_vars

\* C23 amended: as C23, but on a CPU built with
\* stack_underflow_causes_exception=True a pop at SP = $FF raises and leaves
\* SP, A and the flags as they were.
C23_StackWrapsOrRaises ==
    [][last'.kind \in {"trigger_nmi", "run_next_instr"} =>
          /\ cpu'.SP \in 0 .. 255
          /\ OnlyStackPage
          /\ last'.name \in PushesOne =>
                /\ StackByte(cpu.SP) = Pushed(last'.name)
                /\ cpu'.SP = (cpu.SP - 1) % 256
          /\ (last'.name \in PopsOne /\ ~Underflow) =>
                /\ cpu'.SP = (cpu.SP + 1) % 256
                /\ ~halted'
          /\ (last'.name = "pla" /\ ~Underflow) =>
                PulledByte = Get(memory.ram, 256 + ((cpu.SP + 1) % 256))
          /\ (last'.name \in PopsOne /\ Underflow) =>
                /\ halted'
                /\ cpu'.SP = 255
                /\ cpu'.A = cpu.A
                /\ StatusByte(FALSE)' = StatusByte(FALSE)]_vars

\* a byte pushed at $0100 with SP = 0, SP wrapped to $FF, and then pulled
\* again with SP wrapping back to 0, on a CPU that does not raise
C23_Witness ==
    /\ ops = 3
    /\ last.name = "pla"
    /\ ~cpu.stack_underflow_causes_exception
    /\ ~halted
    /\ cpu.SP = 0
    /\ cpu.A = 129
    /\ Get(memory.ram, 256) = 129

-----------------------------------------------------------------------------
(* Properties of the KIL opcode (SpecKil)                                   *)

\* C24: executing a KIL opcode halts the CPU: the step fails with an error,
\* and no later step executes an instruction or changes CPU or PPU state
\* until reset() is called.
C24_KilHalts ==
    [][/\ (last'.kind = "instr" /\ last'.name = "kil") => halted'
       /\ (last.killed /\ last'.kind = "instr") => (cpu' = cpu /\ ppu' = ppu)]_vars

-----------------------------------------------------------------------------
(* Properties of the cartridge (SpecCart)                                   *)

\* C25: a CPU write to any address in $8000..$FFFF on a mapper-0 cartridge
\* is discarded: PRG-ROM is unchanged, so every later read of any cartridge
\* address returns the same byte as before the write.
C25_RomWriteDiscarded ==
    [][/\ (last'.kind = "bus_write" /\ last'.arg >= 32768) => cart' = cart
       /\ (last'.kind = "bus_read" /\ last'.arg >= 32768) =>
             last'.v = Get(PowerUpCart.prg_rom, last'.arg - 32768)]_vars

-----------------------------------------------------------------------------
(* Properties of the reset vector (SpecVec)                                 *)

-----------------------------------------------------------------------------
(* Properties of the indexed addressing modes (SpecIdx)                     *)

ReadInstructions == {"lda_absx", "lda_absy", "lda_indy", "adc_absx"}

\* the base cycles of the instructions, as the 6502 documents them
BaseCycles(name) ==
    CASE name \in {"lda_absx", "lda_absy", "adc_absx"} -> 4
      [] name \in {"lda_indy", "sta_absx", "sta_absy"} -> 5
      [] name = "sta_indy" -> 6
      [] name = "inc_absx" -> 7

\* the base address of the instruction being executed: its operand word, or
\* for (indirect),Y the word its zero-page pointer holds
BaseAddress ==
    IF last'.name \in {"lda_indy", "sta_indy"}
    THEN Get(memory.ram, last'.arg) + 256 * Get(memory.ram, (last'.arg + 1) % 256)
    ELSE last'.arg

\* the index register the instruction being executed adds
IndexRegister ==
    IF last'.name \in {"lda_absx", "adc_absx", "sta_absx", "inc_absx"}
    THEN cpu.X ELSE cpu.Y

\* C27: for a read instruction in absolute,X, absolute,Y or (indirect),Y
\* mode, run_next_instr returns the base cycle count plus 1 iff (low byte of
\* the base address + index register) exceeds 0xFF, and the base count
\* otherwise; store and read-modify-write instructions in these modes never
\* get the extra cycle.
C27_PageCrossCycle ==
    [][last'.kind = "run_next_instr" =>
          /\ last'.cycles =
                BaseCycles(last'.name)
                + (IF last'.name \in ReadInstructions
                      /\ (BaseAddress % 256) + IndexRegister > 255
                   THEN 1 ELSE 0)
          /\ cpu'.cycles_since_reset = cpu.cycles_since_reset + last'.cycles]_vars

\* LDA ($10),Y with the pointer $02FF and Y = 1: the byte at $0300 is loaded
\* in six cycles
C27_Witness ==
    /\ last.kind = "run_next_instr"
    /\ last.name = "lda_indy"
    /\ last.arg = 16
    /\ cpu.Y = 1
    /\ cpu.A = 129
    /\ last.cycles = 6

-----------------------------------------------------------------------------
(* Properties of the branch instructions (SpecBranch)                       *)

\* the branch being executed is taken
Taken ==
    CASE last'.name = "bcc" -> ~cpu.C
      [] last'.name = "bcs" -> cpu.C
      [] last'.name = "beq" -> cpu.Z
      [] last'.name = "bne" -> ~cpu.Z
      [] last'.name = "bmi" -> cpu.N
      [] last'.name = "bpl" -> ~cpu.N
      [] last'.name = "bvc" -> ~cpu.V
      [] last'.name = "bvs" -> cpu.V

\* the address of the instruction that follows the branch being executed
Following == cpu.PC + 2

\* the target of the branch being executed
Target ==
    Following + (IF last'.arg >= 128 THEN last'.arg - 256 ELSE last'.arg)

\* C28: a branch instruction costs its base cycles when not taken, base + 1
\* when taken with the target on the same page as the instruction following
\* the branch, and base + 2 when taken with the target on a different page;
\* when taken, PC becomes (address of the following instruction + signed
\* 8-bit offset).
C28_BranchCycles ==
    [][last'.kind = "run_next_instr" =>
          /\ last'.cycles =
                2 + (IF ~Taken THEN 0
                     ELSE IF Target \div 256 = Following \div 256 THEN 1
                     ELSE 2)
          /\ cpu'.cycles_since_reset = cpu.cycles_since_reset + last'.cycles
          /\ cpu'.PC = IF Taken THEN Target ELSE Following]_vars

\* BNE -16 at $80FE, taken: the target $80F0 is on the page of the branch
\* opcode but not on the page of the following instruction at $8100, and the
\* branch costs four cycles
C28_Witness ==
    /\ ops = 1
    /\ last.name = "bne"
    /\ last.arg = 240
    /\ cpu.PC = 33008
    /\ last.cycles = 4

-----------------------------------------------------------------------------
(* Properties of ADC (SpecAdc)                                              *)

\* A + M + C of the ADC being executed
Sum == cpu.A + last'.arg + (IF cpu.C THEN 1 ELSE 0)

\* C29: for all A, M in 0..255 and carry C in {0,1}, ADC leaves
\* A = (A + M + C) mod 256, C = 1 iff A + M + C > 255, Z = 1 iff the new A is
\* 0, N = bit 7 of the new A, and V = 1 iff A and M have the same sign bit and
\* the result's sign bit differs from it (so A=0x50, C=0, ADC #$50 gives
\* A=0xA0, N=1, V=1, Z=0, C=0); the D flag has no effect.
C29_Adc ==
    [][last'.kind = "run_next_instr" =>
          /\ cpu'.A = Sum % 256
          /\ cpu'.C = (Sum > 255)
          /\ cpu'.Z = (cpu'.A = 0)
          /\ cpu'.N = (cpu'.A >= 128)
          /\ cpu'.V = /\ (cpu.A >= 128) = (last'.arg >= 128)
                      /\ (cpu'.A >= 128) # (cpu.A >= 128)
          /\ cpu'.D = cpu.D
          /\ (cpu.A = 80 /\ ~cpu.C /\ last'.arg = 80 =>
                 /\ cpu'.A = 160
                 /\ cpu'.N /\ cpu'.V /\ ~cpu'.Z /\ ~cpu'.C)]_vars

\* A=0x50, C=0 and the D flag set, ADC #$50: A=0xA0, N=1, V=1, Z=0, C=0
C29_Witness ==
    /\ last.kind = "run_next_instr"
    /\ last.A = 80 /\ ~last.C /\ last.D
    /\ last.arg = 80
    /\ cpu.A = 160
    /\ cpu.N /\ cpu.V /\ ~cpu.Z /\ ~cpu.C

-----------------------------------------------------------------------------
(* Properties of ROM.get_cart (SpecRom)                                     *)

SupportedMappers == {0, 1, 2, 4}

\* C30: ROM.get_cart, and so NES construction, fails with an error for every
\* mapper id outside {0, 1, 2, 4}; it never returns normally without a
\* cartridge object.
C30_UnsupportedMapper ==
    [][/\ last'.kind \in {"get_cart", "NES"} =>
             /\ last'.v \notin SupportedMappers => halted'
             /\ ~halted' => cart' # None]_vars

-----------------------------------------------------------------------------
(* Properties of ROM.decode_header (SpecRom)                                *)

\* C31: ROM.decode_header rejects with an error every 16-byte header whose
\* first four bytes are not 'N', 'E', 'S', 0x1A, and decodes no cartridge
\* metadata from such a header.
C31_BadMagicRejected ==
    [][last'.kind = "ROM" /\ SubSeq(last'.nesheader, 1, 4) # NesMagic =>
           /\ halted'
           /\ rom' = None]_vars

\* bits 2-3 of byte 7 of the header being decoded equal binary 10
Nes2Bits == BitAnd(HeaderByte(last'.nesheader, 7), 12) = 8

\* C32: ROM.decode_header treats a header as NES 2.0 iff bits 2-3 of byte 7
\* equal binary 10; a header with those bits 00, 01 or 11 is decoded as iNES
\* 1.0, with mapper id = (upper nibble of byte 6) | (upper nibble of byte 7
\* << 4) and no contribution from byte 8.
C32_Nes2Detection ==
    [][last'.kind = "ROM" /\ ~halted' =>
           /\ rom'.nes2 = Nes2Bits
           /\ ~Nes2Bits =>
                  rom'.mapper_id =
                      HeaderByte(last'.nesheader, 6) \div 16
                      + 16 * (HeaderByte(last'.nesheader, 7) \div 16)]_vars

-----------------------------------------------------------------------------
(* Properties of the batching of run_cycles (SpecBatch)                     *)

\* line, pixel, frames_since_reset, the status flags and the NMI line
BatchView(p, listener) ==
    <<p.line, p.pixel, p.frames_since_reset,
      p.in_vblank, p.sprite_zero_hit, p.sprite_overflow, listener.nmi>>

\* the view after run_cycles(a) followed by run_cycles(b)
TwoBatches(a, b) ==
    BatchView(run_cycles(run_cycles(W, a), b).ppu,
              run_cycles(run_cycles(W, a), b).interrupt_listener)

\* the n cycles from the current position pass the last pixel of line 261
PassesFrameEnd(n) ==
    /\ ppu.line = 261
    /\ ppu.pixel <= PIXELS_PER_LINE - 1 - (ppu.frames_since_reset % 2)
    /\ ppu.pixel + n > PIXELS_PER_LINE - 1 - (ppu.frames_since_reset % 2)

\* C33: the PPU state reached by NESPPU.run_cycles does not depend on how the
\* cycles are batched: for all a, b >= 0, run_cycles(a) followed by
\* run_cycles(b) leaves the same line, pixel, frames_since_reset, status flags
\* and raised interrupts as one run_cycles(a + b), and frames_since_reset
\* increases by exactly 1 each time the PPU passes the last pixel of line 261.
C33_Batching ==
    [][last'.kind = "run_cycles" =>
          /\ \A a \in 0 .. last'.v :
                 TwoBatches(a, last'.v - a) = BatchView(ppu', interrupt_listener')
          /\ ppu'.frames_since_reset =
                 ppu.frames_since_reset
                 + (IF PassesFrameEnd(last'.v) THEN 1 ELSE 0)]_vars

-----------------------------------------------------------------------------
(* Properties of the PPUCTRL write (SpecNmi)                                *)

\* the operation being done is a PPUCTRL write after the warm-up
CtrlWrite ==
    /\ last'.kind = "write"
    /\ last'.arg = PPU_CTRL
    /\ ppu.cycles_since_reset >= PPUCTRL_WARMUP_CYCLES

\* C34: after the warm-up period, a write to PPUCTRL raises NMI iff in_vblank
\* is set, bit 7 of the written value is 1 and bit 7 of the previous PPUCTRL
\* is 0; in particular such a write raises no NMI once a PPUSTATUS read has
\* cleared in_vblank, and rewriting bit 7 = 1 over bit 7 = 1 raises none.
C34_CtrlWriteNmi ==
    [][CtrlWrite =>
          /\ (last'.write_nmi = 1) =
                 (/\ ppu.in_vblank
                  /\ last'.v \div 128 = 1
                  /\ (ppu.ppu_ctrl \div 128) % 2 = 0)
          /\ last'.write_nmi \in {0, 1}
          /\ interrupt_listener'.nmi =
                 (interrupt_listener.nmi \/ last'.write_nmi = 1)
          /\ (last.kind = "read" /\ last.arg = PPU_STATUS) => last'.write_nmi = 0
          /\ ppu.ppu_ctrl \div 128 = 1 => last'.write_nmi = 0]_vars

\* a PPUCTRL write with bit 7 set, in the vertical blank, has raised the NMI
C34_Witness ==
    /\ last.kind = "write"
    /\ last.arg = PPU_CTRL
    /\ last.v = 128
    /\ last.write_nmi = 1
    /\ ppu.in_vblank
    /\ ppu.line >= 241
    /\ interrupt_listener.nmi
    /\ ~last.nmi_before

-----------------------------------------------------------------------------
(* Properties of the VRAM address (SpecAddr)                                *)

\* C35: after any sequence of PPUADDR writes and PPUDATA reads and writes,
\* the PPU's internal VRAM address stays within the 14-bit range 0..0x3FFF
\* (increments and PPUADDR high-byte writes wrap modulo 0x4000).
C35_VramAddress14Bit == ppu.ppu_addr \in 0 .. 16383

-----------------------------------------------------------------------------
(* Properties of the nametable mirroring (SpecMirror)                       *)

\* C36: for every PPU address in $2000..$3EFF and every mirror pattern the ROM
\* loader can produce (horizontal, vertical, four-screen),
\* NESVRAM.decode_address yields an index inside the PPU's nametable memory,
\* so no PPUDATA access or background fetch fails with an out-of-range index.
C36_NametableIndexInRange ==
    [][(/\ last'.kind \in {"vram_read", "vram_write"}
        /\ last'.arg \in 8192 .. 16127) =>
           /\ ~halted'
           /\ decode_address(cart.nametable_mirror_pattern, last'.arg)[1]
                  = "nametables"
           /\ decode_address(cart.nametable_mirror_pattern, last'.arg)[2]
                  \in 0 .. NAMETABLES_SIZE_BYTES - 1]_vars

-----------------------------------------------------------------------------
(* Properties of the OAM accesses (SpecOam)                                 *)

\* the tick being run calls _overlay_sprites and the call reaches its loop
OverlayRuns ==
    /\ rendering_line(ppu)
    /\ 0 < ppu.pixel /\ ppu.pixel <= 256
    /\ BitAnd(ppu.ppu_mask, RENDER_SPRITES_MASK) # 0
    /\ ~(ppu.pixel - 1 < 8 /\ bit_low(ppu.ppu_mask, RENDER_LEFT8_SPRITES_BIT))

\* the tick being run calls _prefetch_active_sprites
PrefetchRuns == rendering_line(ppu) /\ ppu.pixel = 257

\* the OAM indices _overlay_sprites reads: the X byte of each active sprite
OverlayIndices ==
    {ppu.active_sprites[i] + 3 : i \in 1 .. Len(ppu.active_sprites)}

\* the OAM indices _prefetch_active_sprites and _fill_sprite_latches read:
\* the Y byte of each sprite scanned, the tile and attribute bytes of each
\* sprite kept
PrefetchIndices ==
    {scan_addr(ppu, n) : n \in 0 .. 63}
    \cup {BitAnd(ppu'.active_sprites[i] + 1, 255) :
              i \in 1 .. Len(ppu'.active_sprites)}
    \cup {BitAnd(ppu'.active_sprites[i] + 2, 255) :
              i \in 1 .. Len(ppu'.active_sprites)}

\* C37: every OAM access made during sprite evaluation and sprite rendering
\* uses an index in 0..255, for every OAMADDR value latched at (line 0, pixel
\* 65), including values that are not multiples of 4.
C37_OamIndexInRange ==
    [][last'.kind = "tick" =>
          /\ PrefetchRuns => PrefetchIndices \subseteq 0 .. 255
          /\ OverlayRuns => OverlayIndices \subseteq 0 .. 255
          /\ ~halted']_vars

-----------------------------------------------------------------------------
(* Properties of the PPUSTATUS read (SpecFlags)                             *)

\* C38: a PPUSTATUS read returns in_vblank, sprite_zero_hit and
\* sprite_overflow in bits 7, 6 and 5 and the low five bits (bits 4..0) of
\* the I/O latch, as it was before the read, in bits 4..0; the returned byte
\* then becomes the new I/O latch value.
C38_StatusByte ==
    [][last'.kind = "read" /\ last'.arg = PPU_STATUS =>
          /\ last'.v = 128 * (IF ppu.in_vblank THEN 1 ELSE 0)
                       + 64 * (IF ppu.sprite_zero_hit THEN 1 ELSE 0)
                       + 32 * (IF ppu.sprite_overflow THEN 1 ELSE 0)
                       + (ppu.io_latch % 32)
          /\ ppu'.io_latch = last'.v]_vars

\* C39: after every instruction, interrupt service and branch, PC is a 16-bit
\* value in 0 .. $FFFF: running past $FFFF, relative branches and RTS wrap
\* modulo $10000.
C39_PcSixteenBit == cpu.PC \in 0 .. 65535

\* the position counted in PPU cycles from the start of the frame's grid
Dot(line, pixel) == line * PIXELS_PER_LINE + pixel

\* C40: in every state between PPU ticks, in_vblank set implies that the
\* position (line, pixel) lies from (241, 2) to (261, 1) inclusive, and the
\* position always satisfies 0 <= line <= 261 and 0 <= pixel <= 340.
C40_VblankWindow ==
    /\ ppu.line \in 0 .. 261
    /\ ppu.pixel \in 0 .. 340
    /\ ppu.in_vblank =>
          /\ Dot(241, 2) <= Dot(ppu.line, ppu.pixel)
          /\ Dot(ppu.line, ppu.pixel) <= Dot(261, 1)

\* the flag, set at (241, 1), is still up at (261, 1), the far end of the window
C40_Witness ==
    /\ last.kind = "tick"
    /\ ppu.in_vblank
    /\ ppu.line = 261
    /\ ppu.pixel = 1

====
